---- MODULE Spec2Model ----
(***************************************************************************)
(* Model of the grasshopper language server (internal/server): the Run     *)
(* dispatch loop, the lifecycle and document-synchronisation handlers, the *)
(* debounce timers scheduled by handleDidChange with their callbacks, and  *)
(* the two completion handlers.                                            *)
(*                                                                         *)
(* The dispatch loop is one thread (pc); every timer callback is its own   *)
(* goroutine (cb[t].pc).  A step of the model is one critical section of   *)
(* the code (the statements between a Lock and its Unlock) or one call     *)
(* made while no lock is held (a parse), so every interleaving the locks   *)
(* allow is an interleaving of the model.                                  *)
(***************************************************************************)
EXTENDS Integers, Sequences, FiniteSets, TLC

\* ---------------------------------------------------------------- bounds
\* Number of timers time.AfterFunc can create in one run of the model.
MaxTimers == 3

\* Number of frames the Run loop dispatches in one run of the model.
MaxMsgs == 5

\* Number of Parse calls that return an error in one run of the model.
MaxParseErrors == 1

\* Number of frames one thread writes in one run of the writer.
MaxFrames == 2

\* Number of characters of the texts handed to PositionToOffset.
MaxChars == 4

\* Largest line and largest character of the positions handed to it.
MaxLine == 3
MaxCharacter == 4

\* Length of the short texts handed to ExtractContext.
MaxCtxLen == 4

\* ExtractContext: the bytes kept before the current line and after it.
prefixContextBytes == 2048
suffixContextBytes == 256

\* bufio.MaxScanTokenSize, the buffer limit of the bufio.Scanner that
\* PositionToOffset creates with its default buffer.
MaxScanTokenSize == 65536

\* ------------------------------------------------------- program constants
NoId == 0
AlreadyInitialized == -32002
ParseError == -32700
InvalidRequest == -32600
MethodNotFound == -32601
InvalidParams == -32602
InternalError == -32603

\* ------------------------------------------------------------ input sets
URIs == {"u1", "u2"}
Texts == {"a", "cc"}
Langs == {"go", "txt"}
\* The languageId the client sends for each document.
LangOf(uri) == IF uri = "u1" THEN "go" ELSE "txt"
Versions == {1, 2}
ReqIds == {1}
TimerIds == 1..MaxTimers

\* langMap of parser.Manager: the language ids with a grammar.
langMap == {"go"}

\* ----------------------------------------------------------------- trees
\* A *sitter.Tree: nil, or the tree of the content it was parsed from.
NilTree == [nil |-> TRUE, src |-> ""]
TreeOf(content) == [nil |-> FALSE, src |-> content]
EndByte(tree) == Len(tree.src)

\* parser.Manager.Parse: the (tree, failed) pairs a call can return.  An
\* unsupported language gives (nil, nil); ParseCtx gives a tree or an error.
Parse(langID, content, mayFail) ==
    IF langID \notin langMap
    THEN {<<NilTree, FALSE>>}
    ELSE {<<TreeOf(content), FALSE>>} \cup (IF mayFail THEN {<<NilTree, TRUE>>} ELSE {})

\* ------------------------------------------------------------------ maps
MapSet(f, k, v) == [x \in (DOMAIN f) \cup {k} |-> IF x = k THEN v ELSE f[x]]
MapDelete(f, k) == [x \in (DOMAIN f) \ {k} |-> f[x]]
EmptyMap == [x \in {} |-> 0]

\* ----------------------------------------------------------------- state
VARIABLES
    initialized,     \* Server.initialized
    shutdown,        \* Server.shutdown
    clientCaps,      \* Server.clientCaps
    aiClient,        \* Server.aiClient # nil
    documents,       \* Server.documents: map URI -> DocumentState
    debounceTimers,  \* Server.debounceTimers: map URI -> *time.Timer
    timers,          \* every timer created: its runtime state and its URI
    cb,              \* the callback goroutine of every timer
    pc,              \* position of the Run / handler thread
    req,             \* Method and ID of the message being (or last) handled
    loc,             \* local variables of the running handler
    written,         \* frames written to s.writer since the last dispatch
    nmsgs,           \* number of frames dispatched so far
    parseErrors,     \* number of Parse calls that returned an error so far
    parsedSince,     \* history: callbacks that parsed since the URI's last didChange
    burstText,       \* history: text of the URI's last didChange, "" when none
                     \*   or when a callback of the URI was running on its arrival
    closedSince,     \* history: timers whose URI was closed after scheduling
    shutdownAcked,   \* history: a shutdown request has been answered
    writerMutex,     \* Server.writerMutex: "" when free, else the thread holding it
    out,             \* the byte stream s.writer, as the parts of frames written
    wpc,             \* position of every thread inside sendResponse / sendNotification
    sent,            \* number of frames every thread has sent
    prog,            \* the lock operations and long calls of what every thread runs
    lpc,             \* position of every thread in prog
    held,            \* the locks every thread holds, with their mode
    content,         \* the bytes of a document text handed to a pure function
    pos,             \* the lsp.Position handed to PositionToOffset
    ret,             \* what PositionToOffset returned
    cursorByteOffset,\* the offset handed to ExtractContext
    ctxInfo          \* what ExtractContext returned

\* The server as the dispatch loop, the handlers and the callbacks see it.
progVars == <<initialized, shutdown, clientCaps, aiClient, documents,
              debounceTimers, timers, cb, pc, req, loc, written, nmsgs,
              parseErrors, parsedSince, burstText, closedSince, shutdownAcked>>

\* The writer at the grain of the parts of a frame.
writerVars == <<writerMutex, out, wpc, sent>>

\* The handlers and callbacks at the grain of single lock operations.
lockVars == <<prog, lpc, held>>

\* The arguments and results of PositionToOffset and ExtractContext.
callVars == <<content, pos, ret, cursorByteOffset, ctxInfo>>

\* What the handlers and callbacks of Spec leave alone.
otherVars == <<writerVars, lockVars, callVars>>

vars == <<progVars, otherVars>>

serverVars == <<initialized, shutdown, clientCaps, aiClient>>
timerVars == <<debounceTimers, timers, cb>>
reqVars == <<req, nmsgs>>
histVars == <<parsedSince, burstText, closedSince>>

DocumentState(text, version, langID, tree) ==
    [Text |-> text, Version |-> version, LanguageID |-> langID, Tree |-> tree]

NoLoc == [uri |-> "", text |-> "", lang |-> "", tree |-> NilTree,
          newTree |-> NilTree, ret |-> "",
          found |-> FALSE, stale |-> FALSE, reparsed |-> FALSE, outcome |-> ""]

IdleCb == [pc |-> "none", text |-> "", lang |-> "", newTree |-> NilTree,
           log |-> ""]

\* The threads of the server: the dispatch loop and the callback goroutines.
Threads == {"run", "cb1", "cb2"}

\* ---------------------------------------------------------------- frames
ResultFrame(id, n) == [kind |-> "result", id |-> id, code |-> 0, items |-> n]
NullFrame(id) == [kind |-> "null", id |-> id, code |-> 0, items |-> 0]
ErrorFrame(id, code) == [kind |-> "error", id |-> id, code |-> code, items |-> 0]
NoteFrame == [kind |-> "notification", id |-> NoId, code |-> 0, items |-> 0]

\* sendResponse(id, result, respErr): one frame, written under writerMutex.
sendResponse(w, frame) == Append(w, frame)

\* logToClient: a window/logMessage notification once initialized, else a
\* line in the process log only.
logToClient(w, isInit) == IF isInit THEN Append(w, NoteFrame) ELSE w

\* The server after NewServer.
InitServer ==
    /\ initialized = FALSE
    /\ shutdown = FALSE
    /\ clientCaps = "zero"
    /\ aiClient \in BOOLEAN
    /\ documents = EmptyMap
    /\ debounceTimers = EmptyMap
    /\ timers = [t \in TimerIds |-> [state |-> "unused", uri |-> ""]]
    /\ cb = [t \in TimerIds |-> IdleCb]
    /\ pc = "idle"
    /\ req = [method |-> "", id |-> NoId]
    /\ loc = NoLoc
    /\ written = <<>>
    /\ nmsgs = 0
    /\ parseErrors = 0
    /\ parsedSince = [u \in URIs |-> {}]
    /\ burstText = [u \in URIs |-> ""]
    /\ closedSince = {}
    /\ shutdownAcked = FALSE
    /\ writerMutex = ""
    /\ out = <<>>
    /\ wpc = [th \in Threads |-> "idle"]
    /\ sent = [th \in Threads |-> 0]
    /\ prog = [th \in Threads |-> <<>>]
    /\ lpc = [th \in Threads |-> 1]
    /\ held = [th \in Threads |-> {}]

\* No call of a pure function under way.
NoCall == [called |-> FALSE]

InitCalls ==
    /\ content = <<>>
    /\ pos = [Line |-> 0, Character |-> 0]
    /\ cursorByteOffset = 0
    /\ ret = NoCall
    /\ ctxInfo = NoCall

Init == InitServer /\ InitCalls

\* Run reads the next frame and handleMessage decodes it: Method and ID.
Dispatch(method, id) ==
    /\ pc = "idle"
    /\ nmsgs < MaxMsgs
    /\ nmsgs' = nmsgs + 1
    /\ req' = [method |-> method, id |-> id]

\* The handler and handleMessage return to Run.  l: what the history keeps of
\* the handler's locals until Run reads the next frame.
Return(l) ==
    /\ pc' = "handled"
    /\ loc' = l

NoReq == [method |-> "", id |-> NoId]

\* Run: handleMessage returned false, the loop goes back to reading.  The
\* window of written frames is emptied.
RunLoop ==
    /\ pc = "handled"
    /\ pc' = "idle"
    /\ req' = NoReq
    /\ loc' = NoLoc
    /\ written' = <<>>
    /\ UNCHANGED <<otherVars, nmsgs, shutdownAcked, parseErrors, serverVars, documents, timerVars, histVars>>

\* The step from the return of a handler to the next read touches nothing a
\* callback reads or writes, so it commutes with every callback step: the
\* callbacks are scheduled before or after it, not in between.
CallbackMayStep == pc # "handled"

\* ------------------------------------------------------ lifecycle handlers
\* handleInitialize without the test of s.initialized.
handleInitializeNoCheck(r) ==
    /\ Dispatch("initialize", r.id)
    /\ Return(NoLoc)
    /\ UNCHANGED <<otherVars, shutdownAcked, parseErrors, initialized, shutdown, aiClient, documents, timerVars, histVars>>
    /\ IF r.id = NoId
       THEN /\ written' = <<>>
            /\ UNCHANGED clientCaps
       ELSE IF r.bad
       THEN /\ written' = sendResponse(<<>>, ErrorFrame(r.id, InvalidParams))
            /\ UNCHANGED clientCaps
       ELSE /\ clientCaps' = "caps"
            /\ written' = sendResponse(<<>>, ResultFrame(r.id, 1))

\* handleInitialize.  r: [id, bad]; id = NoId is a message without an id.
handleInitialize(r) ==
    /\ Dispatch("initialize", r.id)
    /\ Return(NoLoc)
    /\ UNCHANGED <<otherVars, shutdownAcked, parseErrors, initialized, shutdown, aiClient, documents, timerVars, histVars>>
    /\ IF r.id = NoId
       THEN /\ written' = <<>>
            /\ UNCHANGED clientCaps
       ELSE IF initialized
       THEN /\ written' = sendResponse(<<>>, ErrorFrame(r.id, AlreadyInitialized))
            /\ UNCHANGED clientCaps
       ELSE IF r.bad
       THEN /\ written' = sendResponse(<<>>, ErrorFrame(r.id, InvalidParams))
            /\ UNCHANGED clientCaps
       ELSE /\ clientCaps' = "caps"
            /\ written' = sendResponse(<<>>, ResultFrame(r.id, 1))

\* handleInitialized.
handleInitialized(r) ==
    /\ Dispatch("initialized", r.id)
    /\ Return(NoLoc)
    /\ initialized' = TRUE
    /\ written' = logToClient(<<>>, TRUE)
    /\ UNCHANGED <<otherVars, shutdownAcked, parseErrors, shutdown, clientCaps, aiClient, documents, timerVars, histVars>>

\* handleShutdown with the loop left as for exit.
handleShutdownExits(r) ==
    /\ Dispatch("shutdown", r.id)
    /\ pc' = "closing"
    /\ loc' = NoLoc
    /\ shutdown' = TRUE
    /\ written' = IF r.id # NoId THEN sendResponse(<<>>, NullFrame(r.id)) ELSE <<>>
    /\ shutdownAcked' = (shutdownAcked \/ r.id # NoId)
    /\ UNCHANGED <<otherVars, parseErrors, initialized, clientCaps, aiClient, documents, timerVars, histVars>>

\* handleShutdown.
handleShutdown(r) ==
    /\ Dispatch("shutdown", r.id)
    /\ Return(NoLoc)
    /\ shutdown' = TRUE
    /\ written' = IF r.id # NoId THEN sendResponse(<<>>, NullFrame(r.id)) ELSE <<>>
    /\ shutdownAcked' = (shutdownAcked \/ r.id # NoId)
    /\ UNCHANGED <<otherVars, parseErrors, initialized, clientCaps, aiClient, documents, timerVars, histVars>>

\* handleExit, then Run: handleMessage returns true, the loop is left and the
\* deferred s.Close() is pending.
handleExit(r) ==
    /\ Dispatch("exit", r.id)
    /\ pc' = "closing"
    /\ loc' = NoLoc
    /\ written' = <<>>
    /\ UNCHANGED <<otherVars, shutdownAcked, parseErrors, serverVars, documents, timerVars, histVars>>

\* Run: a frame that is not dispatched (a header block that cannot be read,
\* no Content-Length, a Content-Length that is not a non-negative number, or
\* a body json.Unmarshal rejects) is logged and the loop reads on.
RunMalformed ==
    /\ pc = "idle"
    /\ nmsgs < MaxMsgs
    /\ nmsgs' = nmsgs + 1
    /\ UNCHANGED <<otherVars, pc, req, loc, written, shutdownAcked, parseErrors, serverVars, documents,
                   timerVars, histVars>>

\* Run: ReadMIMEHeader or ReadFull reports EOF, Run returns nil.
RunEOF ==
    /\ pc = "idle"
    /\ pc' = "closing"
    /\ UNCHANGED <<otherVars, shutdownAcked, parseErrors, serverVars, documents, timerVars, reqVars, loc, written, histVars>>

\* timer.Stop(): a timer that has not fired never fires; one that has fired
\* is not affected.
Stop(ts, t) ==
    IF ts[t].state = "pending" THEN [ts EXCEPT ![t].state = "stopped"] ELSE ts

\* Server.Close: every registered timer is stopped and the map is emptied.
Close ==
    /\ pc = "closing"
    /\ pc' = "exited"
    /\ timers' = [t \in TimerIds |->
                    IF \E u \in DOMAIN debounceTimers : debounceTimers[u] = t
                    THEN Stop(timers, t)[t] ELSE timers[t]]
    /\ debounceTimers' = EmptyMap
    /\ UNCHANGED <<otherVars, shutdownAcked, parseErrors, serverVars, documents, cb, reqVars, loc, written, histVars>>

\* ------------------------------------------------------------ parseDocument
\* parseDocument, first half: s.parser.Parse with no lock held, and the
\* logToClient of a parse error.
parseDocumentParse ==
    /\ pc = "parse"
    /\ \E res \in Parse(loc.lang, loc.text, parseErrors < MaxParseErrors) :
         /\ loc' = [loc EXCEPT !.newTree = res[1], !.reparsed = TRUE]
         /\ written' = IF res[2] THEN logToClient(written, initialized) ELSE written
         /\ parseErrors' = IF res[2] THEN parseErrors + 1 ELSE parseErrors
    /\ pc' = "store"
    /\ UNCHANGED <<otherVars, shutdownAcked, serverVars, documents, timerVars, reqVars, histVars>>

\* The tree stored in every open document.
StoreTreeEverywhere(docs, uri, newTree) ==
    [u \in DOMAIN docs |-> [docs[u] EXCEPT !.Tree = newTree]]

\* The tree parseDocument stores under stateMutex.Lock, if the URI is open.
StoreTree(docs, uri, newTree) ==
    IF uri \in DOMAIN docs THEN [docs EXCEPT ![uri].Tree = newTree] ELSE docs

\* parseDocument, second half, then the return to its caller: handleDidOpen
\* returns to the loop, a completion handler goes on to re-read the store.
parseDocumentStore ==
    /\ pc = "store"
    /\ documents' = StoreTree(documents, loc.uri, loc.newTree)
    /\ IF loc.ret = "idle"
       THEN Return(NoLoc)
       ELSE /\ pc' = loc.ret
            /\ loc' = [loc EXCEPT !.newTree = NilTree]
    /\ UNCHANGED <<otherVars, shutdownAcked, parseErrors, serverVars, timerVars, reqVars, written, histVars>>

Unused == {t \in TimerIds : timers[t].state = "unused"}

\* The timers of a URI whose callback has started and not returned.
Running(uri) == {t \in TimerIds : /\ timers[t].uri = uri
                                  /\ timers[t].state = "fired"
                                  /\ cb[t].pc # "done"}

\* ------------------------------------------- document synchronisation
\* handleDidOpen up to the store of the new DocumentState (Tree: nil).
handleDidOpen(r) ==
    /\ Dispatch("textDocument/didOpen", r.id)
    /\ written' = <<>>
    /\ IF ~initialized \/ r.bad
       THEN /\ Return(NoLoc)
            /\ UNCHANGED <<documents, histVars>>
       ELSE /\ documents' = MapSet(documents, r.uri,
                                   DocumentState(r.text, r.version, r.lang, NilTree))
            /\ pc' = "parse"
            /\ loc' = [NoLoc EXCEPT !.uri = r.uri, !.text = r.text,
                                    !.lang = r.lang, !.ret = "idle"]
            /\ parsedSince' = [parsedSince EXCEPT ![r.uri] = {}]
            /\ burstText' = [burstText EXCEPT ![r.uri] = ""]
            /\ UNCHANGED closedSince
    /\ UNCHANGED <<otherVars, shutdownAcked, parseErrors, serverVars, timerVars>>

\* handleDidSave.
handleDidSave(r) ==
    /\ Dispatch("textDocument/didSave", r.id)
    /\ written' = <<>>
    /\ Return(NoLoc)
    /\ UNCHANGED <<otherVars, shutdownAcked, parseErrors, serverVars, documents, timerVars, histVars>>

\* handleDidClose up to the unlock of debounceTimersMutex: the registered
\* timer is stopped and removed.
handleDidClose(r) ==
    /\ Dispatch("textDocument/didClose", r.id)
    /\ written' = <<>>
    /\ IF ~initialized \/ r.bad
       THEN /\ Return(NoLoc)
            /\ UNCHANGED <<debounceTimers, timers>>
       ELSE /\ IF r.uri \in DOMAIN debounceTimers
               THEN /\ timers' = Stop(timers, debounceTimers[r.uri])
                    /\ debounceTimers' = MapDelete(debounceTimers, r.uri)
               ELSE UNCHANGED <<debounceTimers, timers>>
            /\ pc' = "close_doc"
            /\ loc' = [NoLoc EXCEPT !.uri = r.uri]
    /\ UNCHANGED <<otherVars, shutdownAcked, parseErrors, serverVars, documents, cb, histVars>>

\* handleDidClose, the removal of the document under stateMutex.Lock.
didCloseDelete ==
    /\ pc = "close_doc"
    /\ documents' = MapDelete(documents, loc.uri)
    /\ parsedSince' = [parsedSince EXCEPT ![loc.uri] = {}]
    /\ burstText' = [burstText EXCEPT ![loc.uri] = ""]
    /\ closedSince' = closedSince \cup Running(loc.uri)
    /\ Return(NoLoc)
    /\ UNCHANGED <<otherVars, shutdownAcked, parseErrors, serverVars, timerVars, reqVars, written>>

\* The change stored without the version of the notification.
ApplyChangeKeepVersion(docs, uri, text, version) ==
    [docs EXCEPT ![uri].Text = text]

\* handleDidChange: currentState.Text and currentState.Version are replaced
\* and the state is stored back.
ApplyChange(docs, uri, text, version) ==
    [docs EXCEPT ![uri].Text = text, ![uri].Version = version]

\* handleDidChange up to the unlock of stateMutex: the text of the last
\* content change and the version of the notification are stored.
\* r.changes = FALSE is a notification with no content changes.
handleDidChange(r) ==
    /\ Dispatch("textDocument/didChange", r.id)
    /\ Unused # {}
    /\ written' = <<>>
    /\ IF ~initialized \/ r.bad \/ r.uri \notin DOMAIN documents \/ ~r.changes
       THEN /\ Return(NoLoc)
            /\ UNCHANGED <<documents, histVars>>
       ELSE /\ documents' = ApplyChange(documents, r.uri, r.text, r.version)
            /\ pc' = "debounce"
            /\ loc' = [NoLoc EXCEPT !.uri = r.uri]
            /\ parsedSince' = [parsedSince EXCEPT ![r.uri] = {}]
            /\ burstText' = [burstText EXCEPT ![r.uri] =
                                IF Running(r.uri) = {} THEN r.text ELSE ""]
            /\ UNCHANGED closedSince
    /\ UNCHANGED <<otherVars, shutdownAcked, parseErrors, serverVars, timerVars>>

\* Register with the store skipped when the URI already has an entry.
RegisterKeep(reg, uri, t) == IF uri \in DOMAIN reg THEN reg ELSE MapSet(reg, uri, t)

\* The registry after handleDidChange stores its new timer.
Register(reg, uri, t) == MapSet(reg, uri, t)

\* handleDidChange, the debounce block under debounceTimersMutex: Stop on the
\* registered timer, time.AfterFunc, and the store of the new timer.
didChangeDebounce ==
    /\ pc = "debounce"
    /\ LET t == CHOOSE x \in Unused : \A y \in Unused : x <= y
           stopped == IF loc.uri \in DOMAIN debounceTimers
                      THEN Stop(timers, debounceTimers[loc.uri])
                      ELSE timers
       IN /\ timers' = [stopped EXCEPT ![t] = [state |-> "pending", uri |-> loc.uri]]
          /\ debounceTimers' = Register(debounceTimers, loc.uri, t)
    /\ parsedSince' = [parsedSince EXCEPT ![loc.uri] = {}]
    /\ Return(NoLoc)
    /\ UNCHANGED <<otherVars, shutdownAcked, parseErrors, serverVars, documents, cb, reqVars, written,
                   burstText, closedSince>>

\* ------------------------------------------------------------ completion
\* The staleness test of both completion handlers.
Stale(tree, text) == tree.nil \/ Len(text) # EndByte(tree)

\* What is left of the handler's locals when it returns: whether the document
\* was found, whether its tree was stale, whether the handler reparsed.
Flags(l) == [NoLoc EXCEPT !.found = l.found, !.stale = l.stale,
                          !.reparsed = l.reparsed]

\* The answer for a document that is not open, sent as an error.
NotOpenFrameError(id) == ErrorFrame(id, InvalidParams)

\* Both handlers, document not open: an empty list is the result.
NotOpenFrame(id) == ResultFrame(id, 0)

\* An empty CompletionList / InlineCompletionList sent as the result.
RespondEmpty(l) ==
    /\ written' = sendResponse(written, ResultFrame(req.id, 0))
    /\ Return(Flags(l))

\* What the first part of a completion handler decides: the frames written,
\* where the handler goes on (pc "handled": it returns) and its locals.
Decision(w, p, l) == [written |-> w, pc |-> p, loc |-> l]

\* The copies a completion handler makes of a document under the read lock.
Copies(uri) ==
    LET d == documents[uri]
    IN [NoLoc EXCEPT !.uri = uri, !.text = d.Text,
                     !.lang = d.LanguageID, !.tree = d.Tree,
                     !.found = TRUE, !.stale = Stale(d.Tree, d.Text)]

\* handleCompletion up to the release of the read lock and the checks on the
\* copies: staleness first, then the AI client.
completionDecision(r) ==
    IF ~initialized \/ r.id = NoId
    THEN Decision(<<>>, "handled", NoLoc)
    ELSE IF r.bad
    THEN Decision(sendResponse(<<>>, ResultFrame(r.id, 0)), "handled", NoLoc)
    ELSE IF r.uri \notin DOMAIN documents
    THEN Decision(sendResponse(<<>>, NotOpenFrame(r.id)), "handled", NoLoc)
    ELSE LET l == Copies(r.uri)
         IN IF l.stale
            THEN Decision(<<>>, "parse", [l EXCEPT !.ret = "refetch"])
            ELSE IF ~aiClient
            THEN Decision(sendResponse(<<>>, ResultFrame(r.id, 0)), "handled", Flags(l))
            ELSE Decision(<<>>, "context", l)

\* handleInlineCompletion up to the same point: malformed parameters are an
\* error, and the AI client is checked before the staleness test.
inlineCompletionDecision(r) ==
    IF ~initialized \/ r.id = NoId
    THEN Decision(<<>>, "handled", NoLoc)
    ELSE IF r.bad
    THEN Decision(sendResponse(<<>>, ErrorFrame(r.id, InvalidParams)), "handled", NoLoc)
    ELSE IF r.uri \notin DOMAIN documents
    THEN Decision(sendResponse(<<>>, NotOpenFrame(r.id)), "handled", NoLoc)
    ELSE LET l == Copies(r.uri)
         IN IF ~aiClient
            THEN Decision(sendResponse(<<>>, ResultFrame(r.id, 0)), "handled", Flags(l))
            ELSE IF l.stale
            THEN Decision(<<>>, "parse", [l EXCEPT !.ret = "refetch"])
            ELSE Decision(<<>>, "context", l)

\* The handler acts on its decision.
Decide(d) ==
    /\ written' = d.written
    /\ pc' = d.pc
    /\ loc' = d.loc

\* handleCompletion, first part.
handleCompletion(r) ==
    /\ Dispatch("textDocument/completion", r.id)
    /\ Decide(completionDecision(r))
    /\ UNCHANGED <<otherVars, shutdownAcked, parseErrors, serverVars, documents, timerVars, histVars>>

\* handleInlineCompletion, first part.
handleInlineCompletion(r) ==
    /\ Dispatch("textDocument/inlineCompletion", r.id)
    /\ Decide(inlineCompletionDecision(r))
    /\ UNCHANGED <<otherVars, shutdownAcked, parseErrors, serverVars, documents, timerVars, histVars>>

\* Both handlers after the synchronous parseDocument: the store is read
\* again under the read lock, and only a nil tree ends the request.
completionRefetch ==
    /\ pc = "refetch"
    /\ IF loc.uri \notin DOMAIN documents
       THEN RespondEmpty(loc)
       ELSE LET d == documents[loc.uri]
            IN IF d.Tree.nil
               THEN RespondEmpty(loc)
               ELSE IF req.method = "textDocument/completion" /\ ~aiClient
               THEN RespondEmpty(loc)
               ELSE /\ pc' = "context"
                    /\ loc' = [loc EXCEPT !.tree = d.Tree, !.text = d.Text]
                    /\ UNCHANGED written
    /\ UNCHANGED <<otherVars, shutdownAcked, parseErrors, serverVars, documents, timerVars, reqVars, histVars>>

\* How the rest of a completion handler can end: PositionToOffset rejects a
\* negative position, or GetSuggestion returns a text, an empty text, an
\* error of the backend, context.Canceled or context.DeadlineExceeded.
Outcomes == {"position", "text", "empty", "error", "cancelled", "deadline"}

\* The answer with an error of the backend reported as InternalError.
OutcomeFrameError(id, o) ==
    IF o = "error" THEN ErrorFrame(id, InternalError)
    ELSE ResultFrame(id, IF o = "text" THEN 1 ELSE 0)

\* The answer of both handlers for an outcome: one item for a suggestion, an
\* empty list otherwise.
OutcomeFrame(id, o) == ResultFrame(id, IF o = "text" THEN 1 ELSE 0)

\* Both handlers from PositionToOffset to the response: the context is built
\* from the copies docTextBytes and docTree, the backend is called, and one
\* result is sent.
completionContext ==
    /\ pc = "context"
    /\ \E o \in Outcomes :
         /\ written' = sendResponse(written, OutcomeFrame(req.id, o))
         /\ Return([Flags(loc) EXCEPT !.outcome = o])
    /\ UNCHANGED <<otherVars, shutdownAcked, parseErrors, serverVars, documents, timerVars, reqVars, histVars>>

\* ------------------------------------------------- other methods
\* handleMessage: $/cancelRequest and $/setTrace are logged and ignored.
handleIgnored(r) ==
    /\ Dispatch(r.method, r.id)
    /\ written' = <<>>
    /\ Return(NoLoc)
    /\ UNCHANGED <<otherVars, shutdownAcked, parseErrors, serverVars, documents, timerVars, histVars>>

\* The default case answering every message, with or without an id.
handleUnhandledAnswersAll(r) ==
    /\ Dispatch("unknown/method", r.id)
    /\ written' = sendResponse(<<>>, ErrorFrame(r.id, MethodNotFound))
    /\ Return(NoLoc)
    /\ UNCHANGED <<otherVars, shutdownAcked, parseErrors, serverVars, documents, timerVars, histVars>>

\* handleMessage, default case: a request gets MethodNotFound, a
\* notification is ignored.
handleUnhandled(r) ==
    /\ Dispatch("unknown/method", r.id)
    /\ written' = IF r.id # NoId
                  THEN sendResponse(<<>>, ErrorFrame(r.id, MethodNotFound))
                  ELSE <<>>
    /\ Return(NoLoc)
    /\ UNCHANGED <<otherVars, shutdownAcked, parseErrors, serverVars, documents, timerVars, histVars>>

\* ------------------------------------------------------ timer callbacks
\* The runtime fires a pending timer: its callback starts in a goroutine.
Fire(t) ==
    /\ CallbackMayStep
    /\ timers[t].state = "pending"
    /\ timers' = [timers EXCEPT ![t].state = "fired"]
    /\ cb' = [cb EXCEPT ![t].pc = "read"]
    /\ UNCHANGED <<otherVars, shutdownAcked, parseErrors, serverVars, documents, debounceTimers, pc, reqVars, loc, written,
                   histVars>>

\* callback: the read of the document under stateMutex.RLock.
cbRead(t) ==
    /\ CallbackMayStep
    /\ cb[t].pc = "read"
    /\ LET uri == timers[t].uri
       IN cb' = IF uri \in DOMAIN documents
                THEN [cb EXCEPT ![t].pc = "parse",
                                ![t].text = documents[uri].Text,
                                ![t].lang = documents[uri].LanguageID]
                ELSE [cb EXCEPT ![t].pc = "cleanup_closed"]
    /\ UNCHANGED <<otherVars, shutdownAcked, parseErrors, serverVars, documents, debounceTimers, timers, pc, reqVars, loc,
                   written, histVars>>

\* Cleanup without the comparison with the timer that fired.
CleanupAlways(reg, uri, t) == MapDelete(reg, uri)

\* callback: the registry after the cleanup under debounceTimersMutex, which
\* deletes the entry only when it is the timer that fired.
Cleanup(reg, uri, t) ==
    IF uri \in DOMAIN reg /\ reg[uri] = t THEN MapDelete(reg, uri) ELSE reg

\* callback: which of its three log lines the cleanup prints.
CleanupLog(reg, uri, t) ==
    IF uri \in DOMAIN reg
    THEN IF reg[uri] = t THEN "deleted" ELSE "skipped"
    ELSE "gone"

\* callback: the document was closed; cleanup and return.
cbCleanupClosed(t) ==
    /\ CallbackMayStep
    /\ cb[t].pc = "cleanup_closed"
    /\ debounceTimers' = Cleanup(debounceTimers, timers[t].uri, t)
    /\ cb' = [cb EXCEPT ![t] = [IdleCb EXCEPT !.pc = "done",
                  !.log = CleanupLog(debounceTimers, timers[t].uri, t)]]
    /\ closedSince' = closedSince \ {t}
    /\ UNCHANGED <<otherVars, shutdownAcked, parseErrors, serverVars, documents, timers, pc, reqVars, loc, written,
                   parsedSince, burstText>>

\* callback: parseDocument, first half (Parse with no lock held).
cbParse(t) ==
    /\ CallbackMayStep
    /\ cb[t].pc = "parse"
    /\ \E res \in Parse(cb[t].lang, cb[t].text, parseErrors < MaxParseErrors) :
         /\ cb' = [cb EXCEPT ![t].pc = "store", ![t].newTree = res[1]]
         /\ written' = IF res[2] THEN logToClient(written, initialized) ELSE written
         /\ parseErrors' = IF res[2] THEN parseErrors + 1 ELSE parseErrors
    /\ parsedSince' = [parsedSince EXCEPT ![timers[t].uri] =
                         IF burstText[timers[t].uri] # "" THEN @ \cup {t} ELSE @]
    /\ UNCHANGED <<otherVars, shutdownAcked, serverVars, documents, debounceTimers, timers, pc, reqVars, loc,
                   burstText, closedSince>>

\* callback: parseDocument, second half (the tree stored under the lock).
cbStore(t) ==
    /\ CallbackMayStep
    /\ cb[t].pc = "store"
    /\ documents' = StoreTree(documents, timers[t].uri, cb[t].newTree)
    /\ cb' = [cb EXCEPT ![t] = [IdleCb EXCEPT !.pc = "cleanup"]]
    /\ UNCHANGED <<otherVars, shutdownAcked, parseErrors, serverVars, debounceTimers, timers, pc, reqVars, loc, written,
                   histVars>>

\* The cleanup after the parse that leaves the registry as it is.
cbCleanupKeepsEntry(t) ==
    /\ CallbackMayStep
    /\ cb[t].pc = "cleanup"
    /\ cb' = [cb EXCEPT ![t].pc = "done", ![t].log = "skipped"]
    /\ closedSince' = closedSince \ {t}
    /\ UNCHANGED <<otherVars, shutdownAcked, parseErrors, serverVars, documents, debounceTimers, timers, pc,
                   reqVars, loc, written, parsedSince, burstText>>

\* callback: the cleanup after the parse.
cbCleanup(t) ==
    /\ CallbackMayStep
    /\ cb[t].pc = "cleanup"
    /\ debounceTimers' = Cleanup(debounceTimers, timers[t].uri, t)
    /\ cb' = [cb EXCEPT ![t].pc = "done",
                        ![t].log = CleanupLog(debounceTimers, timers[t].uri, t)]
    /\ closedSince' = closedSince \ {t}
    /\ UNCHANGED <<otherVars, shutdownAcked, parseErrors, serverVars, documents, timers, pc, reqVars, loc, written,
                   parsedSince, burstText>>

\* ------------------------------------------------------------ the inputs
ReqIdSet == {NoId} \cup ReqIds
ReqLifecycle == [id : ReqIdSet, bad : BOOLEAN]
ReqPlain == [id : ReqIdSet]
ReqNote == [id : {NoId}]
ReqDidOpen == {r \in [id : {NoId}, bad : BOOLEAN, uri : URIs, text : Texts,
                         version : Versions, lang : Langs] : r.lang = LangOf(r.uri)}
ReqDidChange == [id : {NoId}, bad : BOOLEAN, uri : URIs, text : Texts,
                 version : Versions, changes : BOOLEAN]
ReqDidClose == [id : {NoId}, bad : BOOLEAN, uri : URIs]
ReqCompletion == [id : ReqIdSet, bad : BOOLEAN, uri : URIs]
ReqIgnored == [id : {NoId}, method : {"$/cancelRequest", "$/setTrace"}]

Next ==
    \/ \E r \in ReqLifecycle : handleInitialize(r)
    \/ \E r \in ReqNote : handleInitialized(r)
    \/ \E r \in ReqPlain : handleShutdown(r)
    \/ \E r \in ReqNote : handleExit(r)
    \/ RunLoop
    \/ RunMalformed
    \/ RunEOF
    \/ Close
    \/ \E r \in ReqDidOpen : handleDidOpen(r)
    \/ \E r \in ReqNote : handleDidSave(r)
    \/ \E r \in ReqDidClose : handleDidClose(r)
    \/ didCloseDelete
    \/ \E r \in ReqDidChange : handleDidChange(r)
    \/ didChangeDebounce
    \/ \E r \in ReqCompletion : handleCompletion(r)
    \/ \E r \in ReqCompletion : handleInlineCompletion(r)
    \/ completionRefetch
    \/ completionContext
    \/ \E r \in ReqIgnored : handleIgnored(r)
    \/ \E r \in ReqPlain : handleUnhandled(r)
    \/ parseDocumentParse
    \/ parseDocumentStore
    \/ \E t \in TimerIds : Fire(t)
    \/ \E t \in TimerIds : cbRead(t)
    \/ \E t \in TimerIds : cbCleanupClosed(t)
    \/ \E t \in TimerIds : cbParse(t)
    \/ \E t \in TimerIds : cbStore(t)
    \/ \E t \in TimerIds : cbCleanup(t)

Spec == Init /\ [][Next]_vars

\* The server under fair scheduling; whether and when the client sends a
\* frame is left open.  The dispatch thread goes on with the steps it takes
\* without reading a frame (Run and the handlers go on once started, and the
\* deferred Close runs once the loop is left); the runtime fires a pending
\* timer when its delay has passed, and schedules the goroutine of its
\* callback until it returns.
SpecLive ==
    /\ Init
    /\ [][Next]_vars
    /\ WF_vars(\/ RunLoop
               \/ Close
               \/ didCloseDelete
               \/ didChangeDebounce
               \/ completionRefetch
               \/ completionContext
               \/ parseDocumentParse
               \/ parseDocumentStore)
    /\ \A t \in TimerIds :
          WF_vars(\/ Fire(t)
                  \/ cbRead(t)
                  \/ cbCleanupClosed(t)
                  \/ cbParse(t)
                  \/ cbStore(t)
                  \/ cbCleanup(t))

\* ------------------------------------------------------------ the writer
\* The write of one frame, at the grain at which its bytes reach s.writer:
\* the header block, then the body.

\* sendResponse, called by the dispatch loop: writerMutex.Lock().
sendResponseLock ==
    /\ wpc["run"] = "idle"
    /\ sent["run"] < MaxFrames
    /\ writerMutex = ""
    /\ writerMutex' = "run"
    /\ wpc' = [wpc EXCEPT !["run"] = "header"]
    /\ UNCHANGED <<progVars, lockVars, callVars, out, sent>>

\* sendNotification entered without taking the lock.
sendNotificationNoLock(th) ==
    /\ th # "run"
    /\ wpc[th] = "idle"
    /\ sent[th] < MaxFrames
    /\ wpc' = [wpc EXCEPT ![th] = "header"]
    /\ UNCHANGED <<progVars, lockVars, callVars, writerMutex, out, sent>>

\* sendNotification, called by a callback through logToClient:
\* writerMutex.Lock().
sendNotificationLock(th) ==
    /\ th # "run"
    /\ wpc[th] = "idle"
    /\ sent[th] < MaxFrames
    /\ writerMutex = ""
    /\ writerMutex' = th
    /\ wpc' = [wpc EXCEPT ![th] = "header"]
    /\ UNCHANGED <<progVars, lockVars, callVars, out, sent>>

\* The part of a frame: which thread wrote it, which of its frames, and
\* whether it is the header block or the body.
Part(th, n, part) == [by |-> th, n |-> n, part |-> part]

\* fmt.Fprintf(s.writer, "Content-Length: %d\r\n\r\n%s", ...): the header
\* block reaches the stream.
FprintfHeader(th) ==
    /\ wpc[th] = "header"
    /\ out' = Append(out, Part(th, sent[th] + 1, "header"))
    /\ wpc' = [wpc EXCEPT ![th] = "body"]
    /\ UNCHANGED <<progVars, lockVars, callVars, writerMutex, sent>>

\* fmt.Fprintf, continued: the body reaches the stream.
FprintfBody(th) ==
    /\ wpc[th] = "body"
    /\ out' = Append(out, Part(th, sent[th] + 1, "body"))
    /\ wpc' = [wpc EXCEPT ![th] = "unlock"]
    /\ UNCHANGED <<progVars, lockVars, callVars, writerMutex, sent>>

\* The deferred writerMutex.Unlock() and the return.
writerUnlock(th) ==
    /\ wpc[th] = "unlock"
    /\ writerMutex' = IF writerMutex = th THEN "" ELSE writerMutex
    /\ wpc' = [wpc EXCEPT ![th] = "idle"]
    /\ sent' = [sent EXCEPT ![th] = @ + 1]
    /\ UNCHANGED <<progVars, lockVars, callVars, out>>

NextWriter ==
    \/ sendResponseLock
    \/ \E th \in Threads : sendNotificationLock(th)
    \/ \E th \in Threads : FprintfHeader(th)
    \/ \E th \in Threads : FprintfBody(th)
    \/ \E th \in Threads : writerUnlock(th)

SpecWriter == Init /\ [][NextWriter]_vars

\* -------------------------------------------------------------- the locks
\* Every handler and the callback as the sequence of its lock operations and
\* of its long calls (Parse, the completion backend), one sequence per path.
Op(op, arg) == [op |-> op, arg |-> arg]

isInitializedOps == <<Op("RLock", "stateMutex"), Op("RUnlock", "stateMutex")>>

sendResponseOps == <<Op("Lock", "writerMutex"), Op("Unlock", "writerMutex")>>

\* logToClient: the read of initialized, then sendNotification.
logToClientOps == isInitializedOps \o sendResponseOps

\* Manager.Parse for a language with a grammar: the lookup in langMap under
\* m.mu.RLock, then SetLanguage and ParseCtx on m.parser with no lock held.
ParseOps == <<Op("RLock", "mu"), Op("RUnlock", "mu"), Op("call", "Parse")>>

\* parseDocument: Parse, the log line of a parse error, the store of the tree.
parseDocumentOps(failed) ==
    ParseOps
    \o (IF failed THEN logToClientOps ELSE <<>>)
    \o <<Op("Lock", "stateMutex"), Op("Unlock", "stateMutex")>>

handleDidOpenOps ==
    {isInitializedOps
       \o <<Op("Lock", "stateMutex"), Op("Unlock", "stateMutex")>>
       \o parseDocumentOps(f) : f \in BOOLEAN}

handleDidCloseOps ==
    {isInitializedOps
       \o <<Op("Lock", "debounceTimersMutex"), Op("Unlock", "debounceTimersMutex"),
            Op("Lock", "stateMutex"), Op("Unlock", "stateMutex")>>}

handleDidChangeOps ==
    {isInitializedOps
       \o <<Op("Lock", "stateMutex"), Op("Unlock", "stateMutex"),
            Op("Lock", "debounceTimersMutex"), Op("Unlock", "debounceTimersMutex")>>}

\* handleCompletion and handleInlineCompletion: document not open; tree fresh;
\* tree stale and reparsed.  Each path that reaches the backend, and each
\* that stops before it.
completionOps ==
    LET read == <<Op("RLock", "stateMutex"), Op("RUnlock", "stateMutex")>>
        backend == {<<>>, <<Op("call", "Backend")>>}
    IN {isInitializedOps \o read \o sendResponseOps}
       \cup {isInitializedOps \o read \o b \o sendResponseOps : b \in backend}
       \cup {isInitializedOps \o read \o parseDocumentOps(f) \o read \o b
                \o sendResponseOps : f \in BOOLEAN, b \in backend}

\* handleInitialize (refused or bad params; accepted), handleInitialized,
\* handleShutdown (with and without a response), and Close, which empties
\* the registry under debounceTimersMutex.
lifecycleOps ==
    LET state == <<Op("Lock", "stateMutex"), Op("Unlock", "stateMutex")>>
    IN {state \o sendResponseOps,
        state \o state \o sendResponseOps,
        state \o logToClientOps,
        state,
        <<Op("Lock", "debounceTimersMutex"), Op("Unlock", "debounceTimersMutex")>>}

\* The callback with the read lock released by defer, at its return.
callbackOpsDeferUnlock ==
    {<<Op("RLock", "stateMutex")>> \o parseDocumentOps(f)
       \o <<Op("Lock", "debounceTimersMutex"), Op("Unlock", "debounceTimersMutex"),
            Op("RUnlock", "stateMutex")>> : f \in BOOLEAN}

\* The timer callback: document closed; document parsed.
callbackOps ==
    {<<Op("RLock", "stateMutex"), Op("RUnlock", "stateMutex"),
       Op("Lock", "debounceTimersMutex"), Op("Unlock", "debounceTimersMutex")>>}
    \cup {<<Op("RLock", "stateMutex"), Op("RUnlock", "stateMutex")>>
            \o parseDocumentOps(f)
            \o <<Op("Lock", "debounceTimersMutex"), Op("Unlock", "debounceTimersMutex")>>
          : f \in BOOLEAN}

\* What a thread may run next.
ProgsOf(th) ==
    IF th = "run"
    THEN handleDidOpenOps \cup handleDidCloseOps \cup handleDidChangeOps
         \cup completionOps \cup lifecycleOps
    ELSE callbackOps

\* The operation a thread is about to execute.
InProg(th) == lpc[th] <= Len(prog[th])
NextOp(th) == prog[th][lpc[th]]

Holders(mu, mode) == {th \in Threads : <<mu, mode>> \in held[th]}

Advance(th) == lpc' = [lpc EXCEPT ![th] = @ + 1]

\* The dispatch loop calls the next handler; the runtime starts a callback.
Begin(th) ==
    /\ ~InProg(th)
    /\ \E p \in ProgsOf(th) : prog' = [prog EXCEPT ![th] = p]
    /\ lpc' = [lpc EXCEPT ![th] = 1]
    /\ UNCHANGED <<progVars, writerVars, callVars, held>>

\* sync.Mutex.Lock / sync.RWMutex.Lock: waits until nobody holds the lock.
Lock(th) ==
    /\ InProg(th)
    /\ NextOp(th).op = "Lock"
    /\ Holders(NextOp(th).arg, "w") \cup Holders(NextOp(th).arg, "r") = {}
    /\ held' = [held EXCEPT ![th] = @ \cup {<<NextOp(th).arg, "w">>}]
    /\ Advance(th)
    /\ UNCHANGED <<progVars, writerVars, callVars, prog>>

\* sync.RWMutex.RLock: waits until no writer holds the lock.
RLock(th) ==
    /\ InProg(th)
    /\ NextOp(th).op = "RLock"
    /\ Holders(NextOp(th).arg, "w") = {}
    /\ held' = [held EXCEPT ![th] = @ \cup {<<NextOp(th).arg, "r">>}]
    /\ Advance(th)
    /\ UNCHANGED <<progVars, writerVars, callVars, prog>>

Unlock(th) ==
    /\ InProg(th)
    /\ NextOp(th).op = "Unlock"
    /\ held' = [held EXCEPT ![th] = @ \ {<<NextOp(th).arg, "w">>}]
    /\ Advance(th)
    /\ UNCHANGED <<progVars, writerVars, callVars, prog>>

RUnlock(th) ==
    /\ InProg(th)
    /\ NextOp(th).op = "RUnlock"
    /\ held' = [held EXCEPT ![th] = @ \ {<<NextOp(th).arg, "r">>}]
    /\ Advance(th)
    /\ UNCHANGED <<progVars, writerVars, callVars, prog>>

\* The call of Parse or of the backend returns.
LongCall(th) ==
    /\ InProg(th)
    /\ NextOp(th).op = "call"
    /\ Advance(th)
    /\ UNCHANGED <<progVars, writerVars, callVars, prog, held>>

NextLocks ==
    \/ \E th \in Threads : Begin(th)
    \/ \E th \in Threads : Lock(th)
    \/ \E th \in Threads : RLock(th)
    \/ \E th \in Threads : Unlock(th)
    \/ \E th \in Threads : RUnlock(th)
    \/ \E th \in Threads : LongCall(th)

SpecLocks == Init /\ [][NextLocks]_vars

\* ------------------------------------------------------- PositionToOffset
\* Texts are sequences of bytes, valid UTF-8 (the text of a document comes
\* out of json.Unmarshal, which yields valid UTF-8).
NL == 10
CR == 13

\* a, e-acute (2 bytes), euro sign (3 bytes), an emoji outside the BMP
\* (4 bytes, 2 UTF-16 units), line feed, carriage return.
Alphabet == {<<97>>, <<195, 169>>, <<226, 130, 172>>, <<240, 159, 152, 128>>,
             <<NL>>, <<CR>>}

RECURSIVE Flatten(_)
Flatten(ss) == IF ss = <<>> THEN <<>> ELSE Head(ss) \o Flatten(Tail(ss))

\* One line of MaxScanTokenSize bytes.
LongLine == [i \in 1..MaxScanTokenSize |-> 97]

PosTexts ==
    {Flatten(cs) : cs \in UNION {[1..n -> Alphabet] : n \in 0..MaxChars}}
    \cup {LongLine}

Positions == [Line : -1..MaxLine, Character : -1..MaxCharacter]

\* content[a:b] of Go: the bytes at offsets a .. b-1.
Slice(c, a, b) == SubSeq(c, a + 1, b)

\* bufio's dropCR: one trailing carriage return is removed.
dropCR(data) ==
    IF Len(data) > 0 /\ data[Len(data)] = CR
    THEN SubSeq(data, 1, Len(data) - 1)
    ELSE data

\* bufio.Scanner with bufio.ScanLines and the default buffer, from offset
\* start on: the tokens (lines without their terminator) scanner.Scan()
\* yields, and whether it stops with ErrTooLong (a line that does not fit
\* the buffer with its line feed).  No token for the empty rest after a
\* final line feed.
RECURSIVE ScanLines(_, _)
ScanLines(c, start) ==
    IF start >= Len(c)
    THEN [tokens |-> <<>>, err |-> FALSE]
    ELSE LET nls == {i \in start..(Len(c) - 1) : c[i + 1] = NL}
             end == IF nls = {} THEN Len(c)
                    ELSE CHOOSE i \in nls : \A j \in nls : i <= j
         IN IF end - start >= MaxScanTokenSize
            THEN [tokens |-> <<>>, err |-> TRUE]
            ELSE LET rest == ScanLines(c, end + 1)
                 IN [tokens |-> <<dropCR(Slice(c, start, end))>> \o rest.tokens,
                     err |-> rest.err]

\* []rune(string(lineBytes)): one rune per lead byte; a rune is kept as its
\* lead byte, which gives its sizes.
Runes(lineBytes) == SelectSeq(lineBytes, LAMBDA b : b < 128 \/ b >= 192)

\* utf8.RuneLen(r).
RuneLen(r) == IF r < 128 THEN 1 ELSE IF r < 224 THEN 2 ELSE IF r < 240 THEN 3 ELSE 4

\* 2 when r > 0xFFFF (a 4-byte sequence), else 1.
Utf16Size(r) == IF r >= 240 THEN 2 ELSE 1

\* The first loop over lineRunes: utf16CodeUnitCount.
RECURSIVE Utf16Count(_)
Utf16Count(runes) ==
    IF runes = <<>> THEN 0 ELSE Utf16Size(Head(runes)) + Utf16Count(Tail(runes))

\* The second loop over lineRunes, from rune i on: runeOffsetBytes at its end.
RECURSIVE RuneLoop(_, _, _, _, _)
RuneLoop(runes, i, utf16CharCount, runeOffsetBytes, character) ==
    IF i > Len(runes) THEN runeOffsetBytes
    ELSE IF utf16CharCount >= character THEN runeOffsetBytes
    ELSE IF utf16CharCount + Utf16Size(runes[i]) > character THEN runeOffsetBytes
    ELSE RuneLoop(runes, i + 1, utf16CharCount + Utf16Size(runes[i]),
                  runeOffsetBytes + RuneLen(runes[i]), character)

\* byteOffset when the scanner reaches line n: every line before it counted
\* as its bytes plus one.
RECURSIVE ByteOffsetAt(_, _)
ByteOffsetAt(tokens, n) ==
    IF n = 0 THEN 0 ELSE ByteOffsetAt(tokens, n - 1) + Len(tokens[n]) + 1

Returned(offset, err) == [called |-> TRUE, offset |-> offset, err |-> err]

\* PositionToOffset(content, pos): the offset and whether an error is returned.
PositionToOffset(c, p) ==
    IF p.Line < 0 THEN Returned(0, TRUE)
    ELSE LET sc == ScanLines(c, 0)
         IN IF p.Line < Len(sc.tokens)
            THEN IF p.Character < 0 THEN Returned(0, TRUE)
                 ELSE LET lineBytes == sc.tokens[p.Line + 1]
                          lineRunes == Runes(lineBytes)
                          byteOffset == ByteOffsetAt(sc.tokens, p.Line)
                      IN IF p.Character > Utf16Count(lineRunes)
                         THEN Returned(byteOffset + Len(lineBytes), FALSE)
                         ELSE Returned(byteOffset
                                         + RuneLoop(lineRunes, 1, 0, 0, p.Character),
                                       FALSE)
            ELSE IF sc.err THEN Returned(0, TRUE)
            ELSE Returned(Len(c), FALSE)

InitPosition ==
    /\ InitServer
    /\ ~aiClient
    /\ content \in PosTexts
    /\ pos \in Positions
    /\ ret = NoCall
    /\ cursorByteOffset = 0
    /\ ctxInfo = NoCall

\* The handler calls position.PositionToOffset.
CallPositionToOffset ==
    /\ ~ret.called
    /\ ret' = PositionToOffset(content, pos)
    /\ UNCHANGED <<progVars, writerVars, lockVars, content, pos, cursorByteOffset, ctxInfo>>

NextPosition == CallPositionToOffset

SpecPosition == InitPosition /\ [][NextPosition]_vars

\* --------------------------------------------------------- ExtractContext
\* The text windows of ExtractContext (its steps 2 to 5).

\* A first line one byte longer than the prefix window, then a line "aa".
LongPrefixText ==
    [i \in 1..(prefixContextBytes + 4) |->
        IF i = prefixContextBytes + 2 THEN NL ELSE 97]

\* A line "a", then a line longer than the suffix window.
LongSuffixText ==
    [i \in 1..(suffixContextBytes + 4) |-> IF i = 2 THEN NL ELSE 98]

CtxTexts ==
    UNION {[1..n -> {97, 98, NL}] : n \in 0..MaxCtxLen}
    \cup {LongPrefixText, LongSuffixText}

\* The validation of cursorByteOffset.
ClampCursor(c, off) == IF off < 0 THEN 0 ELSE IF off > Len(c) THEN Len(c) ELSE off

\* lineStartByte: back from the cursor to just after a line feed, or to 0.
LineStartByte(c, cursor) ==
    LET before == {0} \cup {i \in 1..cursor : c[i] = NL}
    IN CHOOSE i \in before : \A j \in before : j <= i

\* lineEndByte: forward from the cursor to a line feed, or to the end.
LineEndByte(c, cursor) ==
    LET after == {Len(c)} \cup {i \in cursor..(Len(c) - 1) : c[i + 1] = NL}
    IN CHOOSE i \in after : \A j \in after : i <= j

\* The bounds checks on both ends of the current-line slices.
Within(x, lo, hi) == IF x < lo THEN lo ELSE IF x > hi THEN hi ELSE x

\* The prefix window ending one byte before the start of the current line.
PrefixWindowBeforeLineFeed(c, lineStartByte) ==
    LET prefixStartByte == IF lineStartByte - prefixContextBytes < 0 THEN 0
                           ELSE lineStartByte - prefixContextBytes
        prefixEndByte == IF lineStartByte > 0 THEN lineStartByte - 1 ELSE 0
    IN IF prefixEndByte > prefixStartByte
       THEN Slice(c, prefixStartByte, prefixEndByte) ELSE <<>>

\* Step 4: Prefix, the bytes before the current line.
PrefixWindow(c, lineStartByte) ==
    LET prefixStartByte == IF lineStartByte - prefixContextBytes < 0 THEN 0
                           ELSE lineStartByte - prefixContextBytes
        prefixEndByte == lineStartByte
    IN IF prefixEndByte > prefixStartByte
       THEN Slice(c, prefixStartByte, prefixEndByte) ELSE <<>>

\* Step 5: Suffix, the bytes after the line feed of the current line.
SuffixWindow(c, lineEndByte) ==
    LET suffixStartByte == IF lineEndByte < Len(c) /\ c[lineEndByte + 1] = NL
                           THEN lineEndByte + 1 ELSE lineEndByte
        suffixEndByte == IF suffixStartByte + suffixContextBytes > Len(c) THEN Len(c)
                         ELSE suffixStartByte + suffixContextBytes
    IN IF suffixEndByte > suffixStartByte
       THEN Slice(c, suffixStartByte, suffixEndByte) ELSE <<>>

\* ExtractContext(content, rootNode, ..., cursorByteOffset, ...) with a root
\* node: the four text fields of the ContextInfo it returns.
ExtractContext(c, off) ==
    LET cursor == ClampCursor(c, off)
        lineStartByte == LineStartByte(c, cursor)
        lineEndByte == LineEndByte(c, cursor)
        currentLinePrefixEndByte == Within(cursor, lineStartByte, lineEndByte)
        currentLineSuffixStartByte == Within(cursor, lineStartByte, lineEndByte)
    IN [called |-> TRUE,
        CurrentLinePrefix |->
            IF currentLinePrefixEndByte > lineStartByte
            THEN Slice(c, lineStartByte, currentLinePrefixEndByte) ELSE <<>>,
        CurrentLineSuffix |->
            IF lineEndByte > currentLineSuffixStartByte
            THEN Slice(c, currentLineSuffixStartByte, lineEndByte) ELSE <<>>,
        Prefix |-> PrefixWindow(c, lineStartByte),
        Suffix |-> SuffixWindow(c, lineEndByte)]

InitContext ==
    /\ InitServer
    /\ ~aiClient
    /\ content \in CtxTexts
    /\ cursorByteOffset \in -1..(Len(content) + 1)
    /\ pos = [Line |-> 0, Character |-> 0]
    /\ ret = NoCall
    /\ ctxInfo = NoCall

\* The handler calls analyzer.ExtractContext.
CallExtractContext ==
    /\ ~ctxInfo.called
    /\ ctxInfo' = ExtractContext(content, cursorByteOffset)
    /\ UNCHANGED <<progVars, writerVars, lockVars, content, pos, ret, cursorByteOffset>>

NextContext == CallExtractContext

SpecContext == InitContext /\ [][NextContext]_vars

\* ------------------------------------------ the completion pipeline
\* handleCompletion from PositionToOffset to ExtractContext, on a parsed
\* document: the offset, the point, the node at the cursor, the ContextInfo.

\* Largest character of the positions handed to the pipeline.
MaxColumn == 9

\* The document "func main() {\n\tfmt.Pri\n}".
GoExample == <<102, 117, 110, 99, 32, 109, 97, 105, 110, 40, 41, 32, 123, NL,
               9, 102, 109, 116, 46, 80, 114, 105, NL, 125>>

PipelinePositions == [Line : -1..MaxLine, Character : -1..MaxColumn]

\* A node of a *sitter.Tree: its type, whether it is named, its byte range and
\* its parent (0 for the root).  The nodes of a tree are listed in pre-order.
Node(type, named, start, end, parent) ==
    [Type |-> type, named |-> named, StartByte |-> start, EndByte |-> end,
     parent |-> parent]

\* What ParseCtx with the Go grammar returns for GoExample, a program without
\* syntax errors: one function_declaration whose block holds the expression
\* statement fmt.Pri.
GoExampleTree ==
    <<Node("source_file", TRUE, 0, 24, 0),
      Node("function_declaration", TRUE, 0, 24, 1),
      Node("func", FALSE, 0, 4, 2),
      Node("identifier", TRUE, 5, 9, 2),
      Node("parameter_list", TRUE, 9, 11, 2),
      Node("(", FALSE, 9, 10, 5),
      Node(")", FALSE, 10, 11, 5),
      Node("block", TRUE, 12, 24, 2),
      Node("{", FALSE, 12, 13, 8),
      Node("expression_statement", TRUE, 15, 22, 8),
      Node("selector_expression", TRUE, 15, 22, 10),
      Node("identifier", TRUE, 15, 18, 11),
      Node(".", FALSE, 18, 19, 11),
      Node("field_identifier", TRUE, 19, 22, 11),
      Node("}", FALSE, 23, 24, 8)>>

\* The Go document "package p": no declaration encloses anything.
GoTopLevel == <<112, 97, 99, 107, 97, 103, 101, 32, 112>>

\* The Go document "type T struct{}": a struct type inside a type spec.
GoType == <<116, 121, 112, 101, 32, 84, 32, 115, 116, 114, 117, 99, 116, 123, 125>>

\* The bash document "ls": a language with a grammar in langMap and no entry
\* in the node type tables of the analyzer.
BashExample == <<108, 115>>

\* The Go document of two lines, each import "a": one import written twice.
GoImports == <<105, 109, 112, 111, 114, 116, 32, 34, 97, 34, 10,
               105, 109, 112, 111, 114, 116, 32, 34, 97, 34>>

\* The Go document import "": an import whose path is the empty string.
GoEmptyImport == <<105, 109, 112, 111, 114, 116, 32, 34, 34>>

\* The documents handed to the pipeline: text, language id, and the tree
\* ParseCtx returns for the text with the grammar of the language.
PipelineDocs ==
    {[text |-> GoExample, lang |-> "go", tree |-> GoExampleTree],
     [text |-> GoTopLevel, lang |-> "go", tree |->
           <<Node("source_file", TRUE, 0, 9, 0),
             Node("package_clause", TRUE, 0, 9, 1),
             Node("package", FALSE, 0, 7, 2),
             Node("package_identifier", TRUE, 8, 9, 2)>>],
     [text |-> GoType, lang |-> "go", tree |->
           <<Node("source_file", TRUE, 0, 15, 0),
             Node("type_declaration", TRUE, 0, 15, 1),
             Node("type", FALSE, 0, 4, 2),
             Node("type_spec", TRUE, 5, 15, 2),
             Node("type_identifier", TRUE, 5, 6, 4),
             Node("struct_type", TRUE, 7, 15, 4),
             Node("struct", FALSE, 7, 13, 6),
             Node("field_declaration_list", TRUE, 13, 15, 6),
             Node("{", FALSE, 13, 14, 8),
             Node("}", FALSE, 14, 15, 8)>>],
     [text |-> GoImports, lang |-> "go", tree |->
           <<Node("source_file", TRUE, 0, 21, 0),
             Node("import_declaration", TRUE, 0, 10, 1),
             Node("import", FALSE, 0, 6, 2),
             Node("import_spec", TRUE, 7, 10, 2),
             Node("interpreted_string_literal", TRUE, 7, 10, 4),
             Node("import_declaration", TRUE, 11, 21, 1),
             Node("import", FALSE, 11, 17, 6),
             Node("import_spec", TRUE, 18, 21, 6),
             Node("interpreted_string_literal", TRUE, 18, 21, 8)>>],
     [text |-> GoEmptyImport, lang |-> "go", tree |->
           <<Node("source_file", TRUE, 0, 9, 0),
             Node("import_declaration", TRUE, 0, 9, 1),
             Node("import", FALSE, 0, 6, 2),
             Node("import_spec", TRUE, 7, 9, 2),
             Node("interpreted_string_literal", TRUE, 7, 9, 4)>>],
     [text |-> BashExample, lang |-> "bash", tree |->
           <<Node("program", TRUE, 0, 2, 0),
             Node("command", TRUE, 0, 2, 1),
             Node("command_name", TRUE, 0, 2, 2),
             Node("word", TRUE, 0, 2, 3)>>]}

\* docLangID and docTree.RootNode() of the document with text c.
LanguageOf(c) == (CHOOSE d \in PipelineDocs : d.text = c).lang
ParsedTree(c) == (CHOOSE d \in PipelineDocs : d.text = c).tree

\* No node: a nil *sitter.Node, a nil *NodeInfo.
NilNode == 0
NilNodeInfo == [nil |-> TRUE]

functionNodeTypes(languageID) ==
    IF languageID = "go" THEN {"function_declaration", "method_declaration"} ELSE {}

\* The table of class node types with no entry for Go.
classNodeTypesNone(languageID) == {}

classNodeTypes(languageID) ==
    IF languageID = "go" THEN {"type_spec", "struct_type"} ELSE {}

\* calculatePointFromOffset: the row and the column (in bytes) of an offset.
calculatePointFromOffset(c, byteOffset) ==
    LET off == ClampCursor(c, byteOffset)
        nls == {i \in 1..off : c[i] = NL}
        last == IF nls = {} THEN 0 ELSE CHOOSE i \in nls : \A j \in nls : j <= i
    IN <<Cardinality(nls), off - last>>

PointLt(p, q) == p[1] < q[1] \/ (p[1] = q[1] /\ p[2] < q[2])
PointLte(p, q) == p = q \/ PointLt(p, q)

\* The start and end points tree-sitter keeps for a node.
StartPoint(c, n) == calculatePointFromOffset(c, n.StartByte)
EndPoint(c, n) == calculatePointFromOffset(c, n.EndByte)

Children(tree, n) == {k \in DOMAIN tree : tree[k].parent = n}

\* Node.NamedDescendantForPointRange(point, point), from node n down: the
\* first child that reaches the point is entered, and the last named node
\* entered is returned.  exceed: the library also requires the end of a child
\* to lie beyond the point (releases differ in this).
RECURSIVE Descend(_, _, _, _, _, _)
Descend(c, tree, n, lastVisible, point, exceed) ==
    LET reach == {k \in Children(tree, n) :
                    /\ ~PointLt(EndPoint(c, tree[k]), point)
                    /\ ~(exceed /\ PointLte(EndPoint(c, tree[k]), point))}
    IN IF reach = {} THEN lastVisible
       ELSE LET k == CHOOSE x \in reach : \A y \in reach : x <= y
            IN IF PointLt(point, StartPoint(c, tree[k])) THEN lastVisible
               ELSE Descend(c, tree, k,
                            IF tree[k].named THEN k ELSE lastVisible,
                            point, exceed)

NamedDescendantForPointRange(c, tree, point, exceed) ==
    Descend(c, tree, 1, 1, point, exceed)

RECURSIVE findAncestorOfType(_, _, _)

\* findAncestorOfType with the start node tested and no walk to its parents.
findAncestorOfTypeNoWalk(tree, startNode, types) ==
    IF startNode = NilNode \/ types = {} THEN NilNode
    ELSE IF tree[startNode].Type \in types THEN startNode
    ELSE NilNode

\* findAncestorOfType: the start node or its nearest ancestor of one of the
\* types, nil when there is none.
findAncestorOfType(tree, startNode, types) ==
    IF startNode = NilNode \/ types = {} THEN NilNode
    ELSE IF tree[startNode].Type \in types THEN startNode
    ELSE findAncestorOfType(tree, tree[startNode].parent, types)

\* getNodeText: the bytes of the node, or the text of the bounds error.
getNodeText(tree, n, c) ==
    IF n = NilNode THEN <<>>
    ELSE IF tree[n].StartByte > tree[n].EndByte \/ tree[n].EndByte > Len(c)
    THEN "[error extracting text bounds]"
    ELSE Slice(c, tree[n].StartByte, tree[n].EndByte)

\* The NodeInfo ExtractContext stores for a node.
NodeInfo(tree, n, c) ==
    IF n = NilNode THEN NilNodeInfo
    ELSE [nil |-> FALSE, Type |-> tree[n].Type, Content |-> getNodeText(tree, n, c),
          StartByte |-> tree[n].StartByte, EndByte |-> tree[n].EndByte]

\* importNodeTypes[languageID]; the empty set for a language without entry.
importNodeTypes(languageID) ==
    IF languageID = "go" THEN {"import_declaration", "import_spec"} ELSE {}

\* strings.TrimLeft and strings.TrimRight with the bytes of cutset.
RECURSIVE TrimLeft(_, _)
TrimLeft(str, cutset) ==
    IF str # <<>> /\ Head(str) \in cutset THEN TrimLeft(Tail(str), cutset) ELSE str

RECURSIVE TrimRight(_, _)
TrimRight(str, cutset) ==
    IF str # <<>> /\ str[Len(str)] \in cutset
    THEN TrimRight(SubSeq(str, 1, Len(str) - 1), cutset)
    ELSE str

\* strings.Trim and, with the white space of an ASCII text, strings.TrimSpace.
Trim(str, cutset) == TrimRight(TrimLeft(str, cutset), cutset)
TrimSpace(str) == Trim(str, {9, 10, 11, 12, 13, 32})

\* strings.TrimPrefix and strings.TrimSuffix.
TrimPrefix(str, prefix) ==
    IF Len(str) >= Len(prefix) /\ SubSeq(str, 1, Len(prefix)) = prefix
    THEN SubSeq(str, Len(prefix) + 1, Len(str))
    ELSE str

TrimSuffix(str, suffix) ==
    IF Len(str) >= Len(suffix)
       /\ SubSeq(str, Len(str) - Len(suffix) + 1, Len(str)) = suffix
    THEN SubSeq(str, 1, Len(str) - Len(suffix))
    ELSE str

\* cleanImportText for Go and for a language without a case of its own; the
\* empty sequence is the empty string.  The bytes are those of the double
\* quote (34), of "import (", of "import", of ")" (41) and of "(" (40).
cleanImportText(importText, languageID) ==
    LET trimmed == TrimSpace(importText)
        cleaned ==
            IF languageID = "go"
            THEN TrimSpace(
                   TrimSuffix(
                     TrimPrefix(
                       TrimPrefix(Trim(trimmed, {34}),
                                  <<105, 109, 112, 111, 114, 116, 32, 40>>),
                       <<105, 109, 112, 111, 114, 116>>),
                     <<41>>))
            ELSE trimmed
    IN IF languageID = "go" /\ cleaned \in {<<>>, <<40>>, <<41>>} THEN <<>>
       ELSE IF \A i \in DOMAIN cleaned : cleaned[i] \in {9, 10, 11, 12, 13, 32}
            THEN <<>>
       ELSE cleaned

\* The moves of a tree cursor created at the root: each gives the node moved
\* to, or NilNode when the cursor stays where it is.
GoToFirstChild(tree, n) ==
    IF Children(tree, n) = {} THEN NilNode
    ELSE CHOOSE k \in Children(tree, n) : \A j \in Children(tree, n) : k <= j

\* A cursor that never finds a sibling.
GoToNextSiblingNone(tree, n) == NilNode

GoToNextSibling(tree, n) ==
    LET later == {k \in Children(tree, tree[n].parent) : k > n}
    IN IF tree[n].parent = NilNode \/ later = {} THEN NilNode
       ELSE CHOOSE k \in later : \A j \in later : k <= j

\* The inner loop of the traversal: GoToParent (the parent of the node,
\* none at the root) until a parent has a next sibling; NilNode when the
\* root is reached without one.
RECURSIVE ClimbToSibling(_, _)
ClimbToSibling(tree, n) ==
    IF tree[n].parent = NilNode THEN NilNode
    ELSE IF GoToNextSibling(tree, tree[n].parent) # NilNode
         THEN GoToNextSibling(tree, tree[n].parent)
         ELSE ClimbToSibling(tree, tree[n].parent)

\* The most iterations of the traversal loop followed.
MaxWalk == 20

\* The traversal loop of ExtractContext step 6 from the iteration at node n:
\* the nodes visited so far, the imports appended so far (visitedImports holds
\* exactly the appended strings), and whether the loop has ended.
RECURSIVE importLoop(_, _, _, _, _, _)
importLoop(c, tree, languageID, n, acc, fuel) ==
    IF fuel = 0 THEN [acc EXCEPT !.ended = FALSE]
    ELSE
      LET cleanedImport == cleanImportText(getNodeText(tree, n, c), languageID)
          isImport == tree[n].Type \in importNodeTypes(languageID)
          fresh == /\ isImport
                   /\ cleanedImport # <<>>
                   /\ \A i \in DOMAIN acc.Imports : acc.Imports[i] # cleanedImport
          now == [visited |-> Append(acc.visited, n),
                  Imports |-> IF fresh THEN Append(acc.Imports, cleanedImport)
                              ELSE acc.Imports,
                  ended |-> TRUE]
          next == IF GoToFirstChild(tree, n) # NilNode THEN GoToFirstChild(tree, n)
                  ELSE IF GoToNextSibling(tree, n) # NilNode
                       THEN GoToNextSibling(tree, n)
                       ELSE ClimbToSibling(tree, n)
      IN IF next = NilNode THEN now
         ELSE importLoop(c, tree, languageID, next, now, fuel - 1)

\* ExtractContext step 6: no traversal for a language without import types.
extractImports(c, tree, languageID) ==
    IF importNodeTypes(languageID) = {}
    THEN [visited |-> <<>>, Imports |-> <<>>, ended |-> TRUE]
    ELSE importLoop(c, tree, languageID, 1,
                    [visited |-> <<>>, Imports |-> <<>>, ended |-> TRUE], MaxWalk)

\* ExtractContext, steps 1, 6 and 7 added to its text windows: the node at
\* the cursor (looked up again when the handler passed none), the imports and
\* the nearest enclosing function or class node.
ExtractContextNodes(c, tree, passedCursorNode, off, languageID, exceed) ==
    LET text == ExtractContext(c, off)
        point == calculatePointFromOffset(c, ClampCursor(c, off))
        cursorNode == IF passedCursorNode # NilNode THEN passedCursorNode
                      ELSE NamedDescendantForPointRange(c, tree, point, exceed)
        enclosingTypes == functionNodeTypes(languageID) \cup classNodeTypes(languageID)
        enclosingBlockNode == findAncestorOfType(tree, cursorNode, enclosingTypes)
    IN [called |-> TRUE,
        err |-> FALSE,
        LanguageID |-> languageID,
        CurrentLinePrefix |-> text.CurrentLinePrefix,
        CurrentLineSuffix |-> text.CurrentLineSuffix,
        Prefix |-> text.Prefix,
        Suffix |-> text.Suffix,
        Imports |-> extractImports(c, tree, languageID).Imports,
        CursorNode |-> NodeInfo(tree, cursorNode, c),
        EnclosingNode |-> NodeInfo(tree, enclosingBlockNode, c)]

InitPipeline ==
    /\ InitServer
    /\ ~aiClient
    /\ content \in {d.text : d \in PipelineDocs}
    /\ pos \in PipelinePositions
    /\ ret = NoCall
    /\ cursorByteOffset = 0
    /\ ctxInfo = NoCall

\* handleCompletion, steps 2 and 3: the point of the offset PositionToOffset
\* returned, the named node at that point, and ExtractContext on the copies.
completionExtract ==
    /\ ret.called
    /\ ~ret.err
    /\ ~ctxInfo.called
    /\ cursorByteOffset' = ret.offset
    /\ \E exceed \in BOOLEAN :
         LET point == calculatePointFromOffset(content, ret.offset)
             cursorNode == NamedDescendantForPointRange(content, ParsedTree(content),
                                                        point, exceed)
         IN ctxInfo' = ExtractContextNodes(content, ParsedTree(content), cursorNode,
                                           ret.offset, LanguageOf(content), exceed)
    /\ UNCHANGED <<progVars, writerVars, lockVars, content, pos, ret>>

NextPipeline ==
    \/ CallPositionToOffset
    \/ completionExtract

SpecPipeline == InitPipeline /\ [][NextPipeline]_vars

\* ------------------------------------------------------------- properties
CompletionMethods == {"textDocument/completion", "textDocument/inlineCompletion"}

\* The response frames written for the id of the message last dispatched.
Responses == {i \in DOMAIN written :
                written[i].kind # "notification" /\ written[i].id = req.id}

\* A step of the callback of timer t (its firing included).
CallbackStep(t) == cb'[t] # cb[t]

\* The dispatch of a frame by Run / handleMessage.
DispatchStep == nmsgs' = nmsgs + 1 /\ req'.method # ""

\* Run leaves its read loop.
LoopEnds == pc \notin {"closing", "exited"} /\ pc' = "closing"

\* A later didChange has replaced timer t in the registry.
Superseded(t) ==
    /\ timers[t].state # "unused"
    /\ timers[t].uri \in DOMAIN debounceTimers
    /\ debounceTimers[timers[t].uri] > t

\* The timer most recently scheduled for a URI (timer ids grow with time).
Scheduled(uri) == {t \in TimerIds : timers[t].state # "unused" /\ timers[t].uri = uri}
LastScheduled(uri) == CHOOSE t \in Scheduled(uri) : \A x \in Scheduled(uri) : x <= t

\* C1: after a burst of didChange notifications on an open URI, each arriving
\* while the timer of the previous one had not fired, at most one debounce
\* reparse runs (exactly one once the last timer has fired), and it parses the
\* text of the last notification.
C1_OneReparseOfLastText ==
    \A u \in URIs :
        burstText[u] # "" =>
            /\ Cardinality(parsedSince[u]) <= 1
            /\ \A t \in parsedSince[u] :
                 cb[t].pc = "store" => cb[t].text = burstText[u]

\* C2: a callback changes the timer registry only by deleting the entry of
\* its own URI, and only when that entry is the timer that fired; an entry
\* installed by a later didChange is neither deleted nor replaced.
C2_CallbackDeletesOnlyOwnEntry ==
    [][\A t \in TimerIds :
         CallbackStep(t) =>
            /\ DOMAIN debounceTimers' \subseteq DOMAIN debounceTimers
            /\ \A u \in DOMAIN debounceTimers :
                 \/ /\ u \in DOMAIN debounceTimers'
                    /\ debounceTimers'[u] = debounceTimers[u]
                 \/ /\ debounceTimers[u] = t
                    /\ u \notin DOMAIN debounceTimers']_vars

\* C2 witness: a callback has run its cleanup while the registry held the
\* timer of a later didChange, which is still registered.
C2_Witness ==
    \E t \in TimerIds :
        /\ cb[t].pc = "done"
        /\ cb[t].log = "skipped"
        /\ Superseded(t)

\* C3: a callback whose timer a later didChange has replaced in the registry
\* never changes the stored text, version or tree of a document.
C3_SupersededCallbackLeavesDocument ==
    [][\A t \in TimerIds :
         (CallbackStep(t) /\ Superseded(t)) => documents' = documents]_vars

\* C4: an entry of the timer registry is always the timer most recently
\* scheduled for its URI, never an older one.
C4_RegistryHoldsLatestTimer ==
    \A u \in DOMAIN debounceTimers : debounceTimers[u] = LastScheduled(u)

\* C4 witness: the registry holds the timer of a second didChange of a URI
\* while the callback of the first one has fired and finished.
C4_Witness ==
    \E u \in DOMAIN debounceTimers :
        \E t \in Scheduled(u) :
            /\ t < debounceTimers[u]
            /\ cb[t].pc = "done"

\* C5: once a didClose of a URI has been processed, a callback scheduled for
\* that URI before the close changes neither the document map (trees
\* included) nor the timer registry.
C5_CallbackAfterCloseIsNoOp ==
    [][\A t \in closedSince :
         CallbackStep(t) =>
            /\ documents' = documents
            /\ debounceTimers' = debounceTimers]_vars

\* C6: when a completion handler builds the context and calls the backend,
\* the tree it uses ends at the length of the text it uses.
C6_TreeMatchesText ==
    pc = "context" => (~loc.tree.nil /\ EndByte(loc.tree) = Len(loc.text))

\* C7: a completion request on an open document reparses synchronously when
\* the stored tree is missing or stale, and only then.
C7_StaleTreeReparsed ==
    (pc = "handled" /\ req.method \in CompletionMethods /\ loc.found)
        => (loc.stale <=> loc.reparsed)

\* C8: when the handler of a message with an id has returned, exactly one
\* response frame with that id has been written.
C8_ExactlyOneResponse ==
    (pc = "handled" /\ req.id # NoId) => Cardinality(Responses) = 1

\* C9: while uninitialized, a message outside the initialize handshake
\* changes no document, timer or lifecycle flag; a request gets exactly one
\* error response, a notification gets nothing.
C9_UninitializedRejects ==
    [][(DispatchStep /\ ~initialized /\ req'.method \notin {"initialize", "initialized"})
         => /\ UNCHANGED <<documents, debounceTimers, timers, cb, initialized, shutdown>>
            /\ IF req'.id # NoId
               THEN /\ Len(written') = 1
                    /\ written'[1].kind = "error"
                    /\ written'[1].id = req'.id
               ELSE written' = <<>>]_vars

\* C10: an initialize request received while initialized gets exactly one
\* error response (code -32002), stores no client capabilities, changes no
\* server state and leaves the loop running.
C10_SecondInitializeRejected ==
    [][(DispatchStep /\ initialized /\ req'.method = "initialize" /\ req'.id # NoId)
         => /\ written' = <<ErrorFrame(req'.id, AlreadyInitialized)>>
            /\ pc' = "handled"
            /\ UNCHANGED <<serverVars, documents, timerVars>>]_vars

\* C10 witness: the second initialize request has been answered.
C10_Witness ==
    /\ initialized
    /\ pc = "handled"
    /\ req.method = "initialize"
    /\ req.id # NoId
    /\ written = <<ErrorFrame(req.id, AlreadyInitialized)>>

\* C11 (as stated): the read loop ends when and only when an exit
\* notification is dispatched; no other message and no other input condition
\* ends it.
C11_OnlyExitEndsLoop ==
    [][LoopEnds <=> (DispatchStep /\ req'.method = "exit")]_vars

\* C11 (amended): the read loop ends when an exit notification is dispatched,
\* with or without a shutdown before it, and when the read of the next frame
\* reports the end of the input; no other message (shutdown included) and no
\* malformed frame ends it.  The end by end of input dispatches nothing and
\* changes no server state.
C11_ExitOrEOFEndsLoop ==
    [][/\ DispatchStep => (LoopEnds <=> req'.method = "exit")
       /\ (LoopEnds /\ ~DispatchStep) =>
             /\ pc = "idle"
             /\ UNCHANGED <<nmsgs, req, serverVars, documents, timerVars>>]_vars

\* C11 witness: shutdown was acknowledged, the loop went on reading, and the
\* exit notification dispatched later has ended it.
C11_Witness ==
    /\ pc = "closing"
    /\ req.method = "exit"
    /\ shutdown
    /\ nmsgs >= 3

\* A step of the dispatch thread inside the read loop: a frame is read or a
\* handler goes on.
LoopStep == pc \notin {"closing", "exited"} /\ (pc' # pc \/ nmsgs' # nmsgs)

\* C12: once a shutdown request has been acknowledged, no later message does
\* substantive work: the document store and the timer registry are not
\* changed, and no completion request reparses or calls the backend.
C12_NoWorkAfterShutdown ==
    [][(shutdownAcked /\ LoopStep) =>
          /\ UNCHANGED <<documents, debounceTimers>>
          /\ pc' \notin {"parse", "context"}]_vars

\* C13: a message with a method the dispatcher does not know gets exactly one
\* error response with code MethodNotFound when it has an id and no response
\* when it has none; the server state is unchanged and the loop goes on to the
\* next frame.
C13_UnknownMethod ==
    [][(DispatchStep /\ req'.method = "unknown/method") =>
          /\ written' = IF req'.id # NoId
                        THEN <<ErrorFrame(req'.id, MethodNotFound)>>
                        ELSE <<>>
          /\ pc' = "handled"
          /\ UNCHANGED <<serverVars, documents, timerVars>>]_vars

\* C13 witness: an unknown notification has been dropped without a response
\* while documents were open, and the loop is about to read on.
C13_Witness ==
    /\ pc = "handled"
    /\ req = [method |-> "unknown/method", id |-> NoId]
    /\ written = <<>>
    /\ DOMAIN documents # {}

\* The frame a part of the stream belongs to.
FrameOf(c) == <<c.by, c.n>>

\* C14: the bytes of one outbound frame are never interleaved with those of
\* another: in the stream every header block is followed at once by the body
\* of the same frame, and every body follows the header block of its frame.
C14_FramesNotInterleaved ==
    \A i \in DOMAIN out :
        /\ out[i].part = "body" =>
              (i > 1 /\ out[i-1].part = "header" /\ FrameOf(out[i-1]) = FrameOf(out[i]))
        /\ (out[i].part = "header" /\ i < Len(out)) =>
              (out[i+1].part = "body" /\ FrameOf(out[i+1]) = FrameOf(out[i]))

\* C14 witness: the dispatch loop is in the middle of a response (header
\* written, body not yet) while a callback that has already written a
\* notification has another one to send.
C14_Witness ==
    /\ wpc["run"] = "body"
    /\ \E th \in Threads \ {"run"} :
          /\ wpc[th] = "idle"
          /\ sent[th] >= 1
          /\ sent[th] < MaxFrames

\* C15: a thread that calls Parse or the completion backend holds neither
\* stateMutex nor debounceTimersMutex, in any mode.
C15_NoLongCallUnderLock ==
    \A th \in Threads :
        (InProg(th) /\ NextOp(th).op = "call") =>
            \A h \in held[th] : h[1] \notin {"stateMutex", "debounceTimersMutex"}

\* C15 witness: the dispatch loop is inside the backend call of a completion
\* request that has reparsed, while a callback is inside Parse and the other
\* holds stateMutex to store its tree.
C15_Witness ==
    /\ InProg("run") /\ NextOp("run") = Op("call", "Backend")
    /\ Len(prog["run"]) > 8
    /\ InProg("cb1") /\ NextOp("cb1") = Op("call", "Parse")
    /\ <<"stateMutex", "w">> \in held["cb2"]

\* The reference scanner.  A line ends at a line feed or at the end of the
\* text; a carriage return just before that end belongs to the terminator.
RefNLs(c) == {i \in 1..Len(c) : c[i] = NL}
RefLineCount(c) == Cardinality(RefNLs(c)) + 1
RefNthNL(c, k) == CHOOSE i \in RefNLs(c) : Cardinality({j \in RefNLs(c) : j <= i}) = k
RefLineStart(c, k) == IF k = 0 THEN 0 ELSE RefNthNL(c, k)
RefLine(c, k) ==
    dropCR(Slice(c, RefLineStart(c, k),
                 IF k = RefLineCount(c) - 1 THEN Len(c) ELSE RefNthNL(c, k + 1) - 1))
RefLead(b) == b < 128 \/ b >= 192
RefUnits(bytes) ==
    Cardinality({i \in 1..Len(bytes) : RefLead(bytes[i])})
    + Cardinality({i \in 1..Len(bytes) : bytes[i] >= 240})
\* The bytes of the longest run of whole code points of the line that counts
\* at most character UTF-16 units.
RefColumn(line, character) ==
    LET ends == {n \in 0..Len(line) :
                   /\ n = Len(line) \/ RefLead(line[n + 1])
                   /\ RefUnits(SubSeq(line, 1, n)) <= character}
    IN CHOOSE n \in ends : \A m \in ends : m <= n
RefOffset(c, p) == RefLineStart(c, p.Line) + RefColumn(RefLine(c, p.Line), p.Character)
RefInside(c, p) ==
    /\ p.Line >= 0 /\ p.Line < RefLineCount(c)
    /\ p.Character >= 0 /\ p.Character <= RefUnits(RefLine(c, p.Line))

\* C16: for every text and every position inside it, the offset
\* PositionToOffset returns is the offset of the reference scanner, on every
\* line and whatever terminator the lines before it end with.
C16_MatchesReferenceScanner ==
    (ret.called /\ ~ret.err /\ RefInside(content, pos))
        => ret.offset = RefOffset(content, pos)

\* C17: a character beyond the UTF-16 length of its line yields the offset of
\* the end of that line, just before its line break; a line beyond the last
\* line yields the length of the text.
C17_ClampsOutOfRange ==
    (ret.called /\ ~ret.err /\ pos.Line >= 0 /\ pos.Character >= 0) =>
        IF pos.Line >= RefLineCount(content)
        THEN ret.offset = Len(content)
        ELSE pos.Character > RefUnits(RefLine(content, pos.Line))
                => ret.offset = RefLineStart(content, pos.Line)
                                  + Len(RefLine(content, pos.Line))

\* C18: PositionToOffset returns an error only for a negative line or a
\* negative character.
C18_ErrorOnlyWhenNegative ==
    (ret.called /\ pos.Line >= 0 /\ pos.Character >= 0) => ~ret.err

\* C19: each window ExtractContext returns stays within a fixed byte cap,
\* whatever the size of the file: Prefix within prefixContextBytes, Suffix
\* within suffixContextBytes, and the current line (CurrentLinePrefix plus
\* CurrentLineSuffix) within the larger of the two.
C19_WindowsWithinCaps ==
    ctxInfo.called =>
        /\ Len(ctxInfo.Prefix) <= prefixContextBytes
        /\ Len(ctxInfo.Suffix) <= suffixContextBytes
        /\ Len(ctxInfo.CurrentLinePrefix) + Len(ctxInfo.CurrentLineSuffix)
              <= prefixContextBytes

\* C20: Prefix followed by CurrentLinePrefix is the run of bytes of the text
\* that ends exactly at the cursor offset (clamped into the text), nothing
\* skipped or repeated where the two meet.
C20_PrefixEndsAtCursor ==
    ctxInfo.called =>
        LET cursor == ClampCursor(content, cursorByteOffset)
            before == ctxInfo.Prefix \o ctxInfo.CurrentLinePrefix
        IN /\ Len(before) <= cursor
           /\ before = Slice(content, cursor - Len(before), cursor)

\* C20 witness: a cursor past the end of a text whose last line follows a
\* line longer than the prefix window: Prefix is cut to its cap and
\* CurrentLinePrefix is the whole last line.
C20_Witness ==
    /\ ctxInfo.called
    /\ cursorByteOffset > Len(content)
    /\ Len(ctxInfo.Prefix) = prefixContextBytes
    /\ Len(ctxInfo.CurrentLinePrefix) = 2

\* C21: for the Go document "func main() {\n\tfmt.Pri\n}" and the position at
\* the end of fmt.Pri (line 1, character 8), PositionToOffset followed by
\* ExtractContext yields CurrentLinePrefix "\tfmt.Pri", an empty
\* CurrentLineSuffix, and an enclosing node whose text starts with
\* "func main()".
C21_GoExampleContext ==
    (ctxInfo.called /\ content = GoExample /\ pos = [Line |-> 1, Character |-> 8]) =>
        /\ ctxInfo.CurrentLinePrefix = <<9, 102, 109, 116, 46, 80, 114, 105>>
        /\ ctxInfo.CurrentLineSuffix = <<>>
        /\ ~ctxInfo.EnclosingNode.nil
        /\ Len(ctxInfo.EnclosingNode.Content) >= 11
        /\ SubSeq(ctxInfo.EnclosingNode.Content, 1, 11)
              = <<102, 117, 110, 99, 32, 109, 97, 105, 110, 40, 41>>

\* C21 witness: the pipeline has run for line 1, character 8: the offset is
\* 22 and the node at the cursor is the field identifier Pri.
C21_Witness ==
    /\ ctxInfo.called
    /\ content = GoExample
    /\ pos = [Line |-> 1, Character |-> 8]
    /\ ret.offset = 22
    /\ cursorByteOffset = 22
    /\ ctxInfo.CursorNode.Type = "field_identifier"

BackendFailures == {"error", "cancelled", "deadline"}

\* C23: when the backend call of a completion request ends by deadline, by
\* cancellation or with a backend error, the request gets exactly one
\* response, a result with an empty list and never an error.
C23_BackendFailureEmptyResult ==
    (pc = "handled" /\ loc.outcome \in BackendFailures) =>
        /\ Cardinality(Responses) = 1
        /\ \A i \in Responses : written[i] = ResultFrame(req.id, 0)

\* C23 witness: a popup request whose tree was stale has reparsed, called the
\* backend, and the call ended by its deadline.
C23_Witness ==
    /\ pc = "handled"
    /\ req.method = "textDocument/completion"
    /\ loc.outcome = "deadline"
    /\ loc.reparsed
    /\ written[Len(written)] = ResultFrame(req.id, 0)

\* C24: no message without an id causes a response frame (result or error)
\* to be written, whatever its method, its parameters or the failure inside
\* its handler: every response frame written since a dispatch carries the id
\* of the message dispatched, and a message without an id leaves only
\* notifications.
C24_NotificationsGetNoResponse ==
    \A i \in DOMAIN written :
        written[i].kind # "notification" =>
            (req.id # NoId /\ written[i].id = req.id)

\* C24 witness: the handler of a didOpen notification has returned after its
\* parse failed; the only frame written is the log notification.
C24_Witness ==
    /\ pc = "handled"
    /\ req = [method |-> "textDocument/didOpen", id |-> NoId]
    /\ parseErrors = 1
    /\ written = <<NoteFrame>>

\* The standard JSON-RPC error codes.
StandardCodes == {ParseError, InvalidRequest, MethodNotFound, InvalidParams,
                  InternalError}

\* Run reads a frame it cannot dispatch.
MalformedStep == nmsgs' = nmsgs + 1 /\ req'.method = ""

\* C25: a malformed inbound frame (no or non-numeric Content-Length, a body
\* that is not valid JSON) is answered with an error response carrying a
\* standard code, and the read loop goes on to the next frame.
C25_MalformedFrameGetsError ==
    [][MalformedStep =>
          /\ \E i \in DOMAIN written' :
                /\ written'[i].kind = "error"
                /\ written'[i].code \in StandardCodes
          /\ pc' = "idle"]_vars

\* Nothing is under way for a URI: the dispatch loop is between two messages,
\* the URI has no registered timer and no timer waiting to fire, and none of
\* its callbacks is running.
Quiescent(u) ==
    /\ pc \in {"idle", "handled"}
    /\ u \notin DOMAIN debounceTimers
    /\ Running(u) = {}
    /\ \A t \in TimerIds : ~(timers[t].uri = u /\ timers[t].state = "pending")

\* C26: whenever a URI has no registered debounce timer and no callback or
\* parse in progress, the stored tree of its document is nil or the parse of
\* the document's current text: a callback that read an older text has not
\* overwritten a tree parsed from newer text.
C26_QuiescentTreeIsCurrent ==
    \A u \in DOMAIN documents :
        Quiescent(u) =>
            \/ documents[u].Tree.nil
            \/ documents[u].Tree = TreeOf(documents[u].Text)

\* The threads inside SetLanguage / ParseCtx of the shared parser.
InParse == {th \in Threads : InProg(th) /\ NextOp(th) = Op("call", "Parse")}

\* C27: the single tree-sitter parser of parser.Manager is never used by two
\* Parse calls at the same time: the parse of a callback never overlaps the
\* parse of didOpen, the reparse of a completion request, or the parse of
\* another callback.
C27_ParserUsedByOneCall == Cardinality(InParse) <= 1

\* C28: the popup and the inline handler are one pipeline: in the same server
\* state and for the same parameters they make the same decision (answer
\* empty, answer with an error, reparse, call the backend), also when no
\* backend is configured, when the tree is stale and when the parameters are
\* malformed; so they leave the same document store behind.
C28_HandlersDecideAlike ==
    pc = "idle" =>
        \A r \in ReqCompletion :
            completionDecision(r) = inlineCompletionDecision(r)

\* The text and version of every document in the store.
TextAndVersion(docs) == [u \in DOMAIN docs |-> <<docs[u].Text, docs[u].Version>>]

\* A well-formed document notification is dispatched while initialized.
SyncMethods == {"textDocument/didOpen", "textDocument/didChange",
                "textDocument/didClose"}

\* The dispatch thread removes the document of a didClose.
CloseStep == pc = "close_doc" /\ pc' # "close_doc"

\* C29: in an initialized server every well-formed didOpen puts its URI in
\* the store with its text and version, every didChange of an open URI with
\* at least one content change replaces text and version by those of the
\* notification, every didClose removes its URI, and nothing else changes
\* which URIs are stored or their text and version; a didChange for an
\* unopened URI or without content changes changes nothing and schedules no
\* timer.  So a URI is stored exactly when its last open/close is a didOpen,
\* with the text and version of the last didOpen or later effective didChange.
C29_StoreFollowsNotifications ==
    [][/\ \A r \in ReqDidOpen :
            (initialized /\ ~r.bad /\ handleDidOpen(r)) =>
                TextAndVersion(documents')
                   = MapSet(TextAndVersion(documents), r.uri, <<r.text, r.version>>)
       /\ \A r \in ReqDidChange :
            (initialized /\ ~r.bad /\ handleDidChange(r)) =>
                IF r.uri \in DOMAIN documents /\ r.changes
                THEN TextAndVersion(documents')
                        = MapSet(TextAndVersion(documents), r.uri, <<r.text, r.version>>)
                ELSE /\ UNCHANGED <<documents, timerVars>>
                     /\ pc' = "handled"
       /\ \A r \in ReqDidClose :
            (initialized /\ ~r.bad /\ handleDidClose(r)) =>
                /\ TextAndVersion(documents') = TextAndVersion(documents)
                /\ pc' = "close_doc"
                /\ loc'.uri = r.uri
       /\ CloseStep =>
            TextAndVersion(documents') = MapDelete(TextAndVersion(documents), loc.uri)
       /\ (~CloseStep /\ ~(DispatchStep /\ initialized /\ req'.method \in SyncMethods)) =>
            TextAndVersion(documents') = TextAndVersion(documents)]_vars

\* C29 witness: a document that was changed (its timer scheduled) and then
\* closed (the timer stopped and unregistered, no other timer ever created)
\* has been opened again: it is in the store with the text and version of
\* the last didOpen.
C29_Witness ==
    /\ pc = "handled"
    /\ req.method = "textDocument/didOpen"
    /\ timers[1] = [state |-> "stopped", uri |-> "u1"]
    /\ timers[2].state = "unused"
    /\ "u1" \notin DOMAIN debounceTimers
    /\ "u1" \in DOMAIN documents
    /\ documents["u1"].Text = "cc"
    /\ documents["u1"].Version = 2

\* The documents other than u are the same in both stores.
OthersSame(u, docs1, docs2) ==
    /\ DOMAIN docs1 = DOMAIN docs2
    /\ \A v \in DOMAIN docs1 : v # u => docs1[v] = docs2[v]

\* C30: a didChange changes only the text and version of its own document
\* (tree, language id and every other document stay), and a reparse, on the
\* dispatch thread or in a callback, changes only the tree of its own
\* document (text, version, language id and every other document stay).
C30_ChangeAndReparseFrames ==
    [][/\ \A r \in ReqDidChange :
            (handleDidChange(r) /\ r.uri \in DOMAIN documents) =>
                /\ OthersSame(r.uri, documents, documents')
                /\ documents'[r.uri].Tree = documents[r.uri].Tree
                /\ documents'[r.uri].LanguageID = documents[r.uri].LanguageID
       /\ (pc \in {"parse", "store"} /\ pc' # pc) =>
                /\ OthersSame(loc.uri, documents, documents')
                /\ loc.uri \in DOMAIN documents =>
                      documents' = [documents EXCEPT ![loc.uri].Tree = documents'[loc.uri].Tree]
       /\ \A t \in TimerIds :
            (CallbackStep(t) /\ cb[t].pc \in {"parse", "store"}) =>
                /\ OthersSame(timers[t].uri, documents, documents')
                /\ timers[t].uri \in DOMAIN documents =>
                      documents' = [documents EXCEPT
                                      ![timers[t].uri].Tree = documents'[timers[t].uri].Tree]]_vars

\* C30 witness: a callback has stored the tree of a changed document (tree
\* and text agree again, at the version of the change) while another
\* document is open.
C30_Witness ==
    /\ \E t \in TimerIds :
          /\ cb[t].pc = "cleanup"
          /\ timers[t].uri = "u1"
    /\ DOMAIN documents = {"u1", "u2"}
    /\ documents["u1"].Version = 2
    /\ documents["u1"].Tree = TreeOf(documents["u1"].Text)

\* C31: the stored version of an open document never decreases: no step
\* other than a didOpen of the document (which starts its history anew)
\* replaces its version by a smaller one.
C31_VersionNeverDecreases ==
    [][\A u \in (DOMAIN documents) \cap (DOMAIN documents') :
          ~(DispatchStep /\ req'.method = "textDocument/didOpen")
             => documents'[u].Version >= documents[u].Version]_vars

\* C32: every response frame the server writes carries an id and exactly one
\* of a result or an error, for every request method, the acknowledgement of
\* shutdown included.
C32_ResponseHasResultOrError ==
    \A i \in DOMAIN written :
        written[i].kind # "notification" =>
            /\ written[i].id # NoId
            /\ written[i].kind \in {"result", "error"}

\* The kinds of the analyzer's tables for Go; no other language of the
\* documents has an entry.
FunctionLike(lang) ==
    IF lang = "go" THEN {"function_declaration", "method_declaration"} ELSE {}
TypeLike(lang) == IF lang = "go" THEN {"type_spec", "struct_type"} ELSE {}

\* The nodes on the way from node n up to the root, n included.
RECURSIVE PathUp(_, _)
PathUp(tree, n) == IF n = NilNode THEN {} ELSE {n} \cup PathUp(tree, tree[n].parent)

\* The nodes the stored CursorNode describes.
CursorNodes == {k \in DOMAIN ParsedTree(content) :
                  NodeInfo(ParsedTree(content), k, content) = ctxInfo.CursorNode}

\* The nodes of the path from n whose kind is function-like or type-like.
Declarations(tree, n, lang) ==
    {k \in PathUp(tree, n) : tree[k].Type \in FunctionLike(lang) \cup TypeLike(lang)}

\* C33: the enclosing declaration ExtractContext returns is the first node,
\* from the cursor node (itself included) up through its parents, whose kind
\* is function-like or type-like for the language; it is absent when the
\* path has no such node or the language has no kind sets, and then no error
\* is returned.
C33_EnclosingIsNearestDeclaration ==
    ctxInfo.called =>
        /\ ~ctxInfo.err
        /\ Cardinality(CursorNodes) = 1
        /\ \A n \in CursorNodes :
              LET tree == ParsedTree(content)
                  decls == Declarations(tree, n, ctxInfo.LanguageID)
              IN IF decls = {}
                 THEN ctxInfo.EnclosingNode = NilNodeInfo
                 ELSE ctxInfo.EnclosingNode
                         = NodeInfo(tree, CHOOSE k \in decls : \A j \in decls : j <= k,
                                    content)

\* C33 witness: the cursor is inside the struct type of "type T struct{}":
\* the enclosing declaration is the struct type, not the type spec around it.
C33_Witness ==
    /\ ctxInfo.called
    /\ content = GoType
    /\ ctxInfo.CursorNode.Type = "field_declaration_list"
    /\ ctxInfo.EnclosingNode.Type = "struct_type"

\* The nodes of the subtree of n, node before children, children in order.
RECURSIVE PreOrderFrom(_, _, _)
PreOrderFrom(tree, n, k) ==
    IF k > Len(tree) THEN <<>>
    ELSE IF n \in PathUp(tree, k)
         THEN <<k>> \o PreOrderFrom(tree, n, k + 1)
         ELSE PreOrderFrom(tree, n, k + 1)

\* The tree lists its nodes parent before child, and a node's subtree is
\* listed en bloc: the order of the list is the pre-order of the tree.
ListedInPreOrder(tree) ==
    \A k \in DOMAIN tree :
        /\ tree[k].parent < k
        /\ \A j \in DOMAIN tree :
              (tree[k].parent < j /\ j < k) => tree[k].parent \in PathUp(tree, j)

\* The traversal of the document of the state.
Traversal == extractImports(content, ParsedTree(content), ctxInfo.LanguageID)

\* The cleaned text of the node visited i-th, empty for no import node.
CleanedAt(i) ==
    LET tree == ParsedTree(content)
        n == Traversal.visited[i]
    IN IF tree[n].Type \in {"import_declaration", "import_spec"}
       THEN cleanImportText(getNodeText(tree, n, content), ctxInfo.LanguageID)
       ELSE <<>>

\* The place in the traversal where the string is first the cleaned text.
FirstSeen(str) ==
    CHOOSE i \in DOMAIN Traversal.visited :
        /\ CleanedAt(i) = str
        /\ \A j \in 1..(i - 1) : CleanedAt(j) # str

\* C34: the import traversal ends and visits every node of the tree once, in
\* pre-order; Imports holds each distinct non-empty cleaned import string
\* once, in the order of first occurrence in the traversal.
C34_ImportTraversal ==
    (ctxInfo.called /\ ctxInfo.LanguageID = "go") =>
        LET tree == ParsedTree(content)
            imports == ctxInfo.Imports
        IN /\ ListedInPreOrder(tree)
           /\ Traversal.ended
           /\ Traversal.visited = PreOrderFrom(tree, 1, 1)
           /\ Len(Traversal.visited) = Len(tree)
           /\ \A k \in DOMAIN tree : \E i \in DOMAIN Traversal.visited :
                  Traversal.visited[i] = k
           /\ \A i \in DOMAIN imports : imports[i] # <<>>
           /\ \A i, j \in DOMAIN imports : imports[i] = imports[j] => i = j
           /\ {imports[i] : i \in DOMAIN imports}
                 = {CleanedAt(i) : i \in DOMAIN Traversal.visited} \ {<<>>}
           /\ \A i, j \in DOMAIN imports :
                  i < j => FirstSeen(imports[i]) < FirstSeen(imports[j])

\* C34 witness: the document with one import written twice gives two
\* strings, the cleaned declaration and the cleaned spec, each once.
C34_Witness ==
    /\ ctxInfo.called
    /\ content = GoImports
    /\ ctxInfo.Imports = <<(<<34, 97>>), (<<97>>)>>

\* Run's context is cancelled: cancel() has run, after the exit notification
\* or on the return of Run.
ContextCancelled == pc \in {"closing", "exited"}

\* The backend call of a completion request ends and the request is answered.
BackendCallEnds == pc = "context" /\ pc' = "handled"

StoreStep(t) == cb[t].pc = "store" /\ cb'[t].pc = "cleanup"

\* C36: a callback scheduled by a didChange that preceded a didClose of its
\* URI never writes a tree into the document state a later didOpen of the
\* URI created.
C36_NoTreeFromBeforeClose ==
    [][\A t \in closedSince :
          (StoreStep(t) /\ timers[t].uri \in DOMAIN documents) =>
              documents'[timers[t].uri].Tree = documents[timers[t].uri].Tree]_vars

\* An initialize request has been answered with a successful result: the
\* handler stores the client's capabilities right before that answer, and
\* nowhere else.
InitializeSucceeded == clientCaps = "caps"

\* C37: the initialized flag is true only after an initialize request has
\* been answered with a successful result; an initialized notification
\* alone does not set it.
C37_InitializedOnlyAfterInitialize ==
    initialized => InitializeSucceeded

\* The three locks of the server.
ServerLocks == {"stateMutex", "debounceTimersMutex", "writerMutex"}

\* The thread is about to take one of the server's locks.
Wants(th) ==
    /\ InProg(th)
    /\ NextOp(th).op \in {"Lock", "RLock"}
    /\ NextOp(th).arg \in ServerLocks

\* The thread has to wait: the lock it is about to take is held against it.
Waits(th) ==
    /\ Wants(th)
    /\ Holders(NextOp(th).arg, "w")
          \cup (IF NextOp(th).op = "Lock" THEN Holders(NextOp(th).arg, "r") ELSE {})
          # {}

\* C38: no thread takes, or waits for, one of stateMutex,
\* debounceTimersMutex and writerMutex while it holds another of them (or
\* the same one), so the threads never deadlock: whenever a thread is
\* inside a handler or a callback, some such thread can take its next step.
C38_NoLockHeldWhileWaiting ==
    /\ \A th \in Threads :
          Wants(th) => \A h \in held[th] : h[1] \notin ServerLocks
    /\ (\E th \in Threads : InProg(th)) => \E th \in Threads : InProg(th) /\ ~Waits(th)

\* C38 witness: the dispatch thread waits for debounceTimersMutex, which a
\* callback holds in its cleanup; the dispatch thread holds nothing.
C38_Witness ==
    /\ Waits("run")
    /\ NextOp("run").arg = "debounceTimersMutex"
    /\ <<"debounceTimersMutex", "w">> \in held["cb1"]
    /\ held["run"] = {}

\* The callback of timer t returns from its call of the parser.
ParseStep(t) == cb[t].pc = "parse" /\ cb'[t].pc = "store"

\* C39: once Run has returned and Close has stopped the registered timers
\* and closed the parser, no callback calls the parser, writes document
\* state or writes an outbound frame, a callback that had started before
\* Close included.
C39_NoCallbackWorkAfterClose ==
    [][pc = "exited" =>
          /\ \A t \in TimerIds : ~ParseStep(t)
          /\ documents' = documents
          /\ written' = written]_vars

\* C40: once the didChange notifications for a URI have stopped, and with
\* the timers and callbacks scheduled fairly, the registry eventually holds
\* no entry for the URI, and holds none from then on: the last timer
\* scheduled fires and its callback removes its own entry, whether the
\* document is still open or was closed meanwhile.
C40_RegistryEventuallyEmpty ==
    \A u \in URIs : <>[](u \notin DOMAIN debounceTimers)

\* C40 witness: with the server running and the document still open, the
\* callback of the registered timer has removed its own entry.
C40_Witness ==
    \E t \in TimerIds :
        /\ pc \notin {"closing", "exited"}
        /\ cb[t].pc = "done"
        /\ cb[t].log = "deleted"
        /\ timers[t].uri \in DOMAIN documents
        /\ timers[t].uri \notin DOMAIN debounceTimers
====
